---------------------------- MODULE Spec2Model ----------------------------
(***************************************************************************)
(* Social graph queries of openclaw-social-os: key resolution, adjacency,  *)
(* k-hop neighbourhoods, shortest path, common neighbours                  *)
(* (src/lib/graph-engine.js) and the centrality metrics                    *)
(* (src/unnamed/part_006, lib/centrality.js).                              *)
(*                                                                         *)
(* A JavaScript string is a sequence of one-character strings, so that     *)
(* startsWith('@'), `@${input}` and replace(/^@/, '') are computed and not *)
(* assumed.  The values undefined and null are the one-element sequences   *)
(* <<"undefined">> and <<"null">>, which no string of characters equals.   *)
(***************************************************************************)
EXTENDS Integers, Sequences, FiniteSets, TLC

VARIABLES nodes, edges, out, store, now

vars == <<nodes, edges, out, store, now>>

\* nodes and edges are nodes.json and edges.json of the social directory,
\* store its other files (a record, one field per file), now the clock
\* (Date.now()), out the last call and what it returned.  The graph
\* queries read nodes.json and edges.json only.
NoStore == <<>>

undefined == <<"undefined">>
null == <<"null">>

\* JavaScript truthiness of a string-or-undefined value: !v is true for
\* undefined, null and the empty string.
Truthy(v) == v # undefined /\ v # null /\ v # <<>>

\* a || b on string-or-undefined values
Or2(a, b) == IF Truthy(a) THEN a ELSE b

Range(s) == {s[i] : i \in 1..Len(s)}

SeqsUpTo(S, n) == UNION {[1..k -> S] : k \in 0..n}

Contains(s, x) == \E i \in 1..Len(s) : s[i] = x

\* Set.prototype.add on an insertion-ordered set
SetAdd(s, x) == IF Contains(s, x) THEN s ELSE Append(s, x)

-----------------------------------------------------------------------------
(* Strings *)

startsWithAt(s) == Len(s) > 0 /\ s[1] = "@"

\* input.startsWith('@') ? input : `@${input}`
withAt(input) == IF startsWithAt(input) THEN input ELSE <<"@">> \o input

\* input.replace(/^@/, ''): one leading "@" removed
stripAt(input) == IF startsWithAt(input) THEN Tail(input) ELSE input

-----------------------------------------------------------------------------
(* graph-engine.js: indexes *)

Node(id, did, handle) == [id |-> id, did |-> did, handle |-> handle]
Edge(from, to) == [from |-> from, to |-> to]

\* The keys under which one node is registered in nodeByKey.
NodeAliases(node) ==
    LET id == Or2(node.id, node.did)
        handle == node.handle
    IN  (IF Truthy(id) THEN {id} ELSE {})
        \cup (IF Truthy(handle) THEN {handle} ELSE {})
        \cup (IF Truthy(handle) /\ startsWithAt(handle) THEN {Tail(handle)} ELSE {})

\* buildNodeIndex: the key set of the Map nodeByKey (its values are never
\* read by the queries).
buildNodeIndex(ns) == UNION {NodeAliases(ns[i]) : i \in 1..Len(ns)}

\* resolveNodeKey trying the "@" form before the raw input
resolveNodeKeyAtFirst(input, nodeByKey) ==
    IF ~Truthy(input) THEN null
    ELSE IF withAt(input) \in nodeByKey THEN withAt(input)
    ELSE IF input \in nodeByKey THEN input
    ELSE IF stripAt(input) \in nodeByKey THEN stripAt(input)
    ELSE null

resolveNodeKey(input, nodeByKey) ==
    IF ~Truthy(input) THEN null
    ELSE IF input \in nodeByKey THEN input
    ELSE IF withAt(input) \in nodeByKey THEN withAt(input)
    ELSE IF stripAt(input) \in nodeByKey THEN stripAt(input)
    ELSE null

\* adjacency.get(key) || new Set(): the neighbours in insertion order
AdjGet(adjacency, key) ==
    IF key \in DOMAIN adjacency THEN adjacency[key] ELSE <<>>

\* addEdge without `if (!from || !to) return`
addEdgeUnguarded(adjacency, from, to) ==
    [k \in (DOMAIN adjacency) \cup {from} |->
        IF k = from THEN SetAdd(AdjGet(adjacency, from), to)
        ELSE adjacency[k]]

addEdge(adjacency, from, to) ==
    IF ~Truthy(from) \/ ~Truthy(to) THEN adjacency
    ELSE [k \in (DOMAIN adjacency) \cup {from} |->
            IF k = from THEN SetAdd(AdjGet(adjacency, from), to)
            ELSE adjacency[k]]

\* buildAdjacency's loop without the reverse entry: a directed index
RECURSIVE AdjacencyDirected(_, _, _)
AdjacencyDirected(es, i, adjacency) ==
    IF i > Len(es) THEN adjacency
    ELSE AdjacencyDirected(es, i + 1, addEdge(adjacency, es[i].from, es[i].to))

RECURSIVE AdjacencyFrom(_, _, _)
AdjacencyFrom(es, i, adjacency) ==
    IF i > Len(es) THEN adjacency
    ELSE AdjacencyFrom(es, i + 1,
            addEdge(addEdge(adjacency, es[i].from, es[i].to),
                    es[i].to, es[i].from))

EmptyMap == [k \in {} |-> <<>>]

buildAdjacency(es) == AdjacencyFrom(es, 1, EmptyMap)

-----------------------------------------------------------------------------
(* graph-engine.js: queries *)

NodeNotFound(input) == [error |-> "Node not found", input |-> input]

IsError(r) == "error" \in DOMAIN r

\* One pass of `for (const neighbor of neighbors)` in getNeighbors:
\* st = <<visited, next>>
RECURSIVE VisitNeighbors(_, _, _)
VisitNeighbors(neighbors, j, st) ==
    IF j > Len(neighbors) THEN st
    ELSE VisitNeighbors(neighbors, j + 1,
            IF neighbors[j] \in st[1] THEN st
            ELSE <<st[1] \cup {neighbors[j]}, Append(st[2], neighbors[j])>>)

\* `for (const current of frontier)`
RECURSIVE ExpandFrontier(_, _, _, _)
ExpandFrontier(adjacency, frontier, c, st) ==
    IF c > Len(frontier) THEN st
    ELSE ExpandFrontier(adjacency, frontier, c + 1,
            VisitNeighbors(AdjGet(adjacency, frontier[c]), 1, st))

\* The hop loop running while i <= hops: one round too many
RECURSIVE HopLoopOneMore(_, _, _, _, _)
HopLoopOneMore(adjacency, hops, i, visited, frontier) ==
    IF i > hops THEN visited
    ELSE LET st == ExpandFrontier(adjacency, frontier, 1, <<visited, <<>>>>)
         IN  HopLoopOneMore(adjacency, hops, i + 1, st[1], st[2])

\* `for (let i = 0; i < hops; i++)`: the visited set after the last round
RECURSIVE HopLoop(_, _, _, _, _)
HopLoop(adjacency, hops, i, visited, frontier) ==
    IF i >= hops THEN visited
    ELSE LET st == ExpandFrontier(adjacency, frontier, 1, <<visited, <<>>>>)
         IN  HopLoop(adjacency, hops, i + 1, st[1], st[2])

getNeighbors(ns, es, node, hops) ==
    LET nodeByKey == buildNodeIndex(ns)
        startKey == resolveNodeKey(node, nodeByKey)
    IN  IF ~Truthy(startKey) THEN NodeNotFound(node)
        ELSE
          LET adjacency == buildAdjacency(es)
              visited == HopLoop(adjacency, hops, 0, {startKey}, <<startKey>>)
              keep(n) == \/ Or2(n.handle, Or2(n.id, n.did)) \in visited
                         \/ n.id \in visited
                         \/ n.handle \in visited
          IN  [startKey |-> startKey,
               nodes |-> SelectSeq(ns, keep),
               edges |-> SelectSeq(es,
                            LAMBDA e : e.from \in visited /\ e.to \in visited)]

\* prev.get(key)
PrevGet(prev, key) == IF key \in DOMAIN prev THEN prev[key] ELSE undefined

\* `for (const neighbor of neighbors)` in shortestPath:
\* st = [queue, visited, prev]
RECURSIVE EnqueueNeighbors(_, _, _, _)
EnqueueNeighbors(neighbors, j, current, st) ==
    IF j > Len(neighbors) THEN st
    ELSE EnqueueNeighbors(neighbors, j + 1, current,
            IF neighbors[j] \in st.visited THEN st
            ELSE [queue |-> Append(st.queue, neighbors[j]),
                  visited |-> st.visited \cup {neighbors[j]},
                  prev |-> [k \in (DOMAIN st.prev) \cup {neighbors[j]} |->
                              IF k = neighbors[j] THEN current ELSE st.prev[k]]])

\* `while (queue.length > 0)`
RECURSIVE SearchLoop(_, _, _)
SearchLoop(adjacency, toKey, st) ==
    IF Len(st.queue) = 0 THEN st
    ELSE LET current == Head(st.queue)
             shifted == [st EXCEPT !.queue = Tail(st.queue)]
         IN  IF current = toKey THEN shifted
             ELSE SearchLoop(adjacency, toKey,
                     EnqueueNeighbors(AdjGet(adjacency, current), 1, current, shifted))

\* The reconstruction loop with path.push in place of path.unshift
RECURSIVE PathLoopPush(_, _, _)
PathLoopPush(prev, cursor, path) ==
    IF ~Truthy(cursor) THEN path
    ELSE PathLoopPush(prev, PrevGet(prev, cursor), Append(path, cursor))

\* `while (cursor) { path.unshift(cursor); cursor = prev.get(cursor); }`
RECURSIVE PathLoop(_, _, _)
PathLoop(prev, cursor, path) ==
    IF ~Truthy(cursor) THEN path
    ELSE PathLoop(prev, PrevGet(prev, cursor), <<cursor>> \o path)

shortestPath(ns, es, from, to) ==
    LET nodeByKey == buildNodeIndex(ns)
        fromKey == resolveNodeKey(from, nodeByKey)
        toKey == resolveNodeKey(to, nodeByKey)
    IN  IF ~Truthy(fromKey) \/ ~Truthy(toKey)
        THEN NodeNotFound(IF ~Truthy(fromKey) THEN from ELSE to)
        ELSE
          LET adjacency == buildAdjacency(es)
              st == SearchLoop(adjacency, toKey,
                      [queue |-> <<fromKey>>, visited |-> {fromKey}, prev |-> EmptyMap])
          IN  [fromKey |-> fromKey, toKey |-> toKey,
               path |-> IF toKey \notin st.visited THEN <<>>
                        ELSE PathLoop(st.prev, toKey, <<>>)]

\* commonNeighbors testing only its first argument for not-found
commonNeighborsFirstOnly(ns, es, a, b) ==
    LET nodeByKey == buildNodeIndex(ns)
        aKey == resolveNodeKey(a, nodeByKey)
        bKey == resolveNodeKey(b, nodeByKey)
    IN  IF ~Truthy(aKey)
        THEN NodeNotFound(a)
        ELSE
          LET adjacency == buildAdjacency(es)
              aNeighbors == AdjGet(adjacency, aKey)
              bNeighbors == AdjGet(adjacency, bKey)
          IN  [aKey |-> aKey, bKey |-> bKey,
               common |-> SelectSeq(aNeighbors, LAMBDA n : Contains(bNeighbors, n))]

commonNeighbors(ns, es, a, b) ==
    LET nodeByKey == buildNodeIndex(ns)
        aKey == resolveNodeKey(a, nodeByKey)
        bKey == resolveNodeKey(b, nodeByKey)
    IN  IF ~Truthy(aKey) \/ ~Truthy(bKey)
        THEN NodeNotFound(IF ~Truthy(aKey) THEN a ELSE b)
        ELSE
          LET adjacency == buildAdjacency(es)
              aNeighbors == AdjGet(adjacency, aKey)
              bNeighbors == AdjGet(adjacency, bKey)
          IN  [aKey |-> aKey, bKey |-> bKey,
               common |-> SelectSeq(aNeighbors, LAMBDA n : Contains(bNeighbors, n))]

-----------------------------------------------------------------------------
(* Numbers of the centrality metrics: a JavaScript number is the exact     *)
(* rational <<numerator, denominator>> in lowest terms, denominator > 0.   *)

RECURSIVE GCD(_, _)
GCD(a, b) == IF b = 0 THEN a ELSE GCD(b, a % b)

Abs(n) == IF n < 0 THEN -n ELSE n

Rat(n, d) == LET g == GCD(Abs(n), d) IN <<n \div g, d \div g>>

Zero == Rat(0, 1)
One == Rat(1, 1)

\* x + y
RAdd(x, y) ==
    LET g == GCD(x[2], y[2])
        l == (x[2] \div g) * y[2]
    IN  Rat(x[1] * (l \div x[2]) + y[1] * (l \div y[2]), l)

\* x * y
RMul(x, y) ==
    LET g1 == GCD(Abs(x[1]), y[2])
        g2 == GCD(Abs(y[1]), x[2])
    IN  Rat((x[1] \div g1) * (y[1] \div g2), (x[2] \div g2) * (y[2] \div g1))

\* x / y, for y > 0
RDiv(x, y) == RMul(x, <<y[2], y[1]>>)

-----------------------------------------------------------------------------
(* centrality.js (src/unnamed/part_006) *)

add(adj, a, b) ==
    IF ~Truthy(a) \/ ~Truthy(b) THEN adj
    ELSE [k \in (DOMAIN adj) \cup {a} |->
            IF k = a THEN SetAdd(AdjGet(adj, a), b) ELSE adj[k]]

\* The edge loop keeping only add(e.from, e.to): out-neighbours only
RECURSIVE AdjLoopDirected(_, _, _)
AdjLoopDirected(es, i, adj) ==
    IF i > Len(es) THEN adj
    ELSE AdjLoopDirected(es, i + 1, add(adj, es[i].from, es[i].to))

\* `for (const e of edges) { add(e.from, e.to); add(e.to, e.from); }`
RECURSIVE AdjLoop(_, _, _)
AdjLoop(es, i, adj) ==
    IF i > Len(es) THEN adj
    ELSE AdjLoop(es, i + 1,
            add(add(adj, es[i].from, es[i].to), es[i].to, es[i].from))

centralityAdjacency(es) == AdjLoop(es, 1, EmptyMap)

\* node.handle || node.id || node.did
nodeKey(n) == Or2(n.handle, Or2(n.id, n.did))

\* nodes.map(n => n.handle || n.id || n.did).filter(Boolean)
nodeKeys(ns) == SelectSeq([i \in 1..Len(ns) |-> nodeKey(ns[i])], Truthy)

\* obj[k] = v on an object held as a function
Put(obj, k, v) == [x \in (DOMAIN obj) \cup {k} |-> IF x = k THEN v ELSE obj[x]]

\* keys.forEach(k => (obj[k] = v))
Fill(keys, v) == [k \in Range(keys) |-> v]

degreeCentrality(ns, es) ==
    LET adj == centralityAdjacency(es)
    IN  [k \in {nodeKey(ns[i]) : i \in 1..Len(ns)} |-> Len(AdjGet(adj, k))]

(* pageRank *)

\* `for (const n of neighbors)`: newRank[n] += damping * (rank[k] / outDegree),
\* a key met for the first time starting at (1 - damping) / N
RECURSIVE PrNeighborLoop(_, _, _, _, _)
PrNeighborLoop(neighbors, j, share, base, newRank) ==
    IF j > Len(neighbors) THEN newRank
    ELSE LET n == neighbors[j]
             cur == IF n \in DOMAIN newRank THEN newRank[n] ELSE base
         IN  PrNeighborLoop(neighbors, j + 1, share, base,
                            Put(newRank, n, RAdd(cur, share)))

\* The share a node sends to each neighbour, without the division by
\* its out-degree
PrShareUndivided(damping, r, outDegree) == RMul(damping, r)

\* damping * (rank[k] / outDegree)
PrShare(damping, r, outDegree) == RMul(damping, RDiv(r, Rat(outDegree, 1)))

\* `for (const k of keys)`
RECURSIVE PrKeyLoop(_, _, _, _, _, _, _)
PrKeyLoop(adj, keys, c, damping, base, rank, newRank) ==
    IF c > Len(keys) THEN newRank
    ELSE LET neighbors == AdjGet(adj, keys[c])
             outDegree == IF Len(neighbors) = 0 THEN 1 ELSE Len(neighbors)
         IN  PrKeyLoop(adj, keys, c + 1, damping, base, rank,
                PrNeighborLoop(neighbors, 1,
                               PrShare(damping, rank[keys[c]], outDegree),
                               base, newRank))

\* newRank[k] || 0
OrZero(x) == IF x[1] = 0 THEN Zero ELSE x

\* The body of `for (let i = 0; i < iterations; i++)`: the rank after one
\* more iteration
PrSweep(adj, keys, damping, N, rank) ==
    LET base == RDiv(RAdd(One, RMul(Rat(-1, 1), damping)), Rat(N, 1))
        newRank == PrKeyLoop(adj, keys, 1, damping, base, rank,
                             Fill(keys, base))
    IN  [k \in Range(keys) |-> OrZero(newRank[k])]

\* `for (let i = 0; i < iterations; i++)`
RECURSIVE PrIterate(_, _, _, _, _, _, _)
PrIterate(adj, keys, iterations, i, damping, N, rank) ==
    IF i >= iterations THEN rank
    ELSE PrIterate(adj, keys, iterations, i + 1, damping, N,
                   PrSweep(adj, keys, damping, N, rank))

pageRank(ns, es, iterations, damping) ==
    LET adj == centralityAdjacency(es)
        keys == nodeKeys(ns)
        N == IF Len(keys) = 0 THEN 1 ELSE Len(keys)
    IN  PrIterate(adj, keys, iterations, 0, damping, N,
                  Fill(keys, Rat(1, N)))

(* betweennessCentrality *)

\* `for (const w of neighbors)`: b = [queue, stack, preds, sigma, dist];
\* a key that is no declared node has no dist entry, and both tests are
\* false for it
RECURSIVE BcNeighborLoop(_, _, _, _)
BcNeighborLoop(neighbors, j, v, b) ==
    IF j > Len(neighbors) THEN b
    ELSE LET w == neighbors[j]
         IN  IF w \notin DOMAIN b.dist THEN BcNeighborLoop(neighbors, j + 1, v, b)
             ELSE
               LET b1 == IF b.dist[w] < 0
                         THEN [b EXCEPT !.queue = Append(@, w),
                                        !.dist[w] = b.dist[v] + 1]
                         ELSE b
                   b2 == IF b1.dist[w] = b1.dist[v] + 1
                         THEN [b1 EXCEPT !.sigma[w] = @ + b1.sigma[v],
                                         !.preds[w] = Append(@, v)]
                         ELSE b1
               IN  BcNeighborLoop(neighbors, j + 1, v, b2)

\* `while (queue.length)`
RECURSIVE BcSearch(_, _)
BcSearch(adj, b) ==
    IF Len(b.queue) = 0 THEN b
    ELSE LET v == Head(b.queue)
             b1 == [b EXCEPT !.queue = Tail(@), !.stack = Append(@, v)]
         IN  BcSearch(adj, BcNeighborLoop(AdjGet(adj, v), 1, v, b1))

\* `for (const v of preds[w])`
RECURSIVE BcPredLoop(_, _, _, _, _)
BcPredLoop(ps, j, w, sigma, delta) ==
    IF j > Len(ps) THEN delta
    ELSE LET v == ps[j]
         IN  BcPredLoop(ps, j + 1, w, sigma,
                [delta EXCEPT ![v] =
                    RAdd(@, RMul(Rat(sigma[v], sigma[w]), RAdd(One, delta[w])))])

\* The accumulation adding delta[w] to scores[w] for the source too
RECURSIVE BcAccumulateAll(_, _, _, _, _)
BcAccumulateAll(stack, s, b, delta, scores) ==
    IF Len(stack) = 0 THEN scores
    ELSE LET w == stack[Len(stack)]
             d1 == BcPredLoop(b.preds[w], 1, w, b.sigma, delta)
         IN  BcAccumulateAll(SubSeq(stack, 1, Len(stack) - 1), s, b, d1,
                [scores EXCEPT ![w] = RAdd(@, d1[w])])

\* `while (stack.length)`
RECURSIVE BcAccumulate(_, _, _, _, _)
BcAccumulate(stack, s, b, delta, scores) ==
    IF Len(stack) = 0 THEN scores
    ELSE LET w == stack[Len(stack)]
             d1 == BcPredLoop(b.preds[w], 1, w, b.sigma, delta)
         IN  BcAccumulate(SubSeq(stack, 1, Len(stack) - 1), s, b, d1,
                IF w # s THEN [scores EXCEPT ![w] = RAdd(@, d1[w])] ELSE scores)

\* `for (const s of keys)`
RECURSIVE BcSourceLoop(_, _, _, _)
BcSourceLoop(adj, keys, c, scores) ==
    IF c > Len(keys) THEN scores
    ELSE LET s == keys[c]
             b0 == [queue |-> <<s>>, stack |-> <<>>,
                    preds |-> Fill(keys, <<>>),
                    sigma |-> [Fill(keys, 0) EXCEPT ![s] = 1],
                    dist |-> [Fill(keys, -1) EXCEPT ![s] = 0]]
             b == BcSearch(adj, b0)
         IN  BcSourceLoop(adj, keys, c + 1,
                BcAccumulate(b.stack, s, b, Fill(keys, Zero), scores))

betweennessCentrality(ns, es) ==
    LET adj == centralityAdjacency(es)
        keys == nodeKeys(ns)
    IN  BcSourceLoop(adj, keys, 1, Fill(keys, Zero))

-----------------------------------------------------------------------------
(* The graphs and requests of the query specification *)

MaxNodes == 3
MaxEdges == 3
MaxHops == 2

key_a == <<"@", "a">>
key_b == <<"@", "b">>
key_c == <<"c">>
key_g == <<"@", "g">>
id_a == <<"a", "1">>

\* The collectors write { id, handle: "@name" } (collector.js 101-111,
\* 181-187); imported node files may carry only one of the two.
NodeList ==
    << Node(id_a, undefined, key_a),
       Node(undefined, undefined, key_b),
       Node(key_c, undefined, undefined) >>

\* Edges as the collectors write them (from and to are handles or mention
\* strings), a mention of an account that is no node (key_g), a self
\* mention, and an edge that lost its `from`.
EdgeList ==
    << Edge(key_a, key_b), Edge(key_b, key_c), Edge(key_c, key_a),
       Edge(key_c, key_g), Edge(key_a, key_a), Edge(undefined, key_b) >>

\* What a caller may name a node by: handles, handles without "@", ids,
\* and the mention key_g, which is no node.
InputPool == { key_a, <<"a">>, id_a, key_b, key_c, key_g }

Ascending(ix) == \A i, j \in 1..Len(ix) : i < j => ix[i] <= ix[j]
Descending(ix) == \A i, j \in 1..Len(ix) : i < j => ix[i] >= ix[j]
Strictly(ix) == \A i, j \in 1..Len(ix) : i < j => ix[i] # ix[j]

Pick(list, ix) == [i \in 1..Len(ix) |-> list[ix[i]]]

\* nodes.json: up to n distinct nodes of the list, in the list's order
\* (node keys are unique per store)
NodeLists(list, n) ==
    {Pick(list, ix) : ix \in {s \in SeqsUpTo(1..Len(list), n) :
                                    Ascending(s) /\ Strictly(s)}}

\* edges.json: up to n edges of the list, repeats allowed, in the list's
\* order or in the reverse order
EdgeLists(list, n) ==
    {Pick(list, ix) : ix \in {s \in SeqsUpTo(1..Len(list), n) :
                                    Ascending(s) \/ Descending(s)}}

Init ==
    /\ nodes \in NodeLists(NodeList, MaxNodes)
    /\ edges \in EdgeLists(EdgeList, MaxEdges)
    /\ out = [op |-> "none"]
    /\ store = NoStore
    /\ now = 0

\* One invocation answers one request: a query runs while no outcome is held.
Idle == out.op = "none"

GetNeighbors ==
    \E node \in InputPool, hops \in 0..MaxHops :
        /\ Idle
        /\ out' = [op |-> "getNeighbors", node |-> node, hops |-> hops,
                   result |-> getNeighbors(nodes, edges, node, hops)]
        /\ UNCHANGED <<nodes, edges, store, now>>

ShortestPath ==
    \E from \in InputPool, to \in InputPool :
        /\ Idle
        /\ out' = [op |-> "shortestPath", from |-> from, to |-> to,
                   result |-> shortestPath(nodes, edges, from, to)]
        /\ UNCHANGED <<nodes, edges, store, now>>

CommonNeighbors ==
    \E a \in InputPool, b \in InputPool :
        /\ Idle
        /\ out' = [op |-> "commonNeighbors", a |-> a, b |-> b,
                   result |-> commonNeighbors(nodes, edges, a, b)]
        /\ UNCHANGED <<nodes, edges, store, now>>

Next == GetNeighbors \/ ShortestPath \/ CommonNeighbors

Spec == Init /\ [][Next]_vars

-----------------------------------------------------------------------------
(* The undirected graph of an edge list, stated on the edges themselves     *)
(* and not through the indexes the code builds.                            *)

WellFormed(e) == Truthy(e.from) /\ Truthy(e.to)

Adjacent(es, x, y) ==
    \E i \in 1..Len(es) :
        /\ WellFormed(es[i])
        /\ \/ es[i].from = x /\ es[i].to = y
           \/ es[i].from = y /\ es[i].to = x

EdgeKeys(es) ==
    UNION {{es[i].from, es[i].to} : i \in {j \in 1..Len(es) : WellFormed(es[j])}}

NeighborSet(es, x) == {y \in EdgeKeys(es) : Adjacent(es, x, y)}

\* The keys at undirected distance <= h from x
RECURSIVE Within(_, _, _)
Within(es, x, h) ==
    IF h = 0 THEN {x}
    ELSE LET W == Within(es, x, h - 1)
         IN  W \cup UNION {NeighborSet(es, w) : w \in W}

Connected(es, x, y) == y \in Within(es, x, Cardinality(EdgeKeys(es)))

\* The primary key of a declared node: handle || id || did
PrimaryKey(n) == Or2(n.handle, Or2(n.id, n.did))

\* Whether the index of the declared nodes resolves an input
Resolves(input) == resolveNodeKey(input, buildNodeIndex(nodes)) # null

-----------------------------------------------------------------------------
(* C1 *)

IsWalk(es, p) == \A i \in 1..(Len(p) - 1) : Adjacent(es, p[i], p[i + 1])

\* C1: shortestPath, for resolvable from and to, raises no error; when the
\* resolved keys are connected in the undirected graph it returns a path
\* that starts with from, ends with to, steps only along edges, and no
\* walk between them has fewer steps (from = to gives the one-element
\* path); when they are not connected it returns the empty path.
C1_ShortestPath ==
    (out.op = "shortestPath" /\ Resolves(out.from) /\ Resolves(out.to)) =>
        LET f == resolveNodeKey(out.from, buildNodeIndex(nodes))
            t == resolveNodeKey(out.to, buildNodeIndex(nodes))
            r == out.result
        IN  /\ ~IsError(r)
            /\ r.fromKey = f /\ r.toKey = t
            /\ IF Connected(edges, f, t)
               THEN /\ Len(r.path) >= 1
                    /\ r.path[1] = f
                    /\ r.path[Len(r.path)] = t
                    /\ IsWalk(edges, r.path)
                    /\ \A k \in 0..(Len(r.path) - 2) : t \notin Within(edges, f, k)
                    /\ (f = t => r.path = <<f>>)
               ELSE r.path = <<>>

\* A two-step path was returned although the graph also holds a longer
\* route, and (second state) an unconnected pair gave the empty path.
C1_Witness ==
    /\ out.op = "shortestPath"
    /\ ~IsError(out.result)
    /\ Len(out.result.path) = 3
    /\ Len(edges) = 3

(* C7 *)

\* C7: commonNeighbors(a, b) returns, as a set, the intersection of the
\* neighbour sets of the two resolved keys, and commonNeighbors(b, a)
\* returns the same set.
C7_CommonNeighbors ==
    (out.op = "commonNeighbors" /\ Resolves(out.a) /\ Resolves(out.b)) =>
        LET r == out.result
            swapped == commonNeighbors(nodes, edges, out.b, out.a)
        IN  /\ ~IsError(r)
            /\ Range(r.common) =
                 NeighborSet(edges, r.aKey) \cap NeighborSet(edges, r.bKey)
            /\ ~IsError(swapped)
            /\ Range(swapped.common) = Range(r.common)

\* Two different nodes with a common neighbour
C7_Witness ==
    /\ out.op = "commonNeighbors"
    /\ ~IsError(out.result)
    /\ out.result.aKey # out.result.bKey
    /\ out.result.common # <<>>

(* C2 *)

\* Every key a declared node is matched by in the result filter
NodeKeys(n) == {k \in {n.handle, n.id, PrimaryKey(n)} : Truthy(k)}

DeclaredKeys(ns) == UNION {NodeKeys(ns[i]) : i \in 1..Len(ns)}

\* C2 as stated, on requests that name the node by its own primary key:
\* the primary keys of the nodes returned are exactly the keys at distance
\* <= hops from the start key, keys that are only edge endpoints included,
\* and the edges returned are the input edges inside that set.
C2_AsStated ==
    (/\ out.op = "getNeighbors"
     /\ ~IsError(out.result)
     /\ \E i \in 1..Len(nodes) : PrimaryKey(nodes[i]) = out.node) =>
        LET R == Within(edges, out.result.startKey, out.hops)
        IN  /\ {PrimaryKey(n) : n \in Range(out.result.nodes)} = R
            /\ out.result.edges =
                 SelectSeq(edges, LAMBDA e : e.from \in R /\ e.to \in R)

\* C2 (amended): for a resolvable start and hops >= 0, with R the set of
\* keys at undirected distance <= hops from the resolved start key, the
\* nodes returned are exactly the declared nodes that have a handle or id
\* (did when they have neither) in R, in node-list order; a key of R that
\* is only an edge endpoint has no entry among them; the edges returned
\* are exactly the input edges whose two endpoints both lie in R.
C2_KHopNeighbors ==
    (out.op = "getNeighbors" /\ Resolves(out.node)) =>
        LET r == out.result
            R == Within(edges, resolveNodeKey(out.node, buildNodeIndex(nodes)),
                        out.hops)
        IN  /\ ~IsError(r)
            /\ r.nodes = SelectSeq(nodes, LAMBDA n : NodeKeys(n) \cap R # {})
            /\ \A k \in R \ DeclaredKeys(nodes) :
                 \A n \in Range(r.nodes) : k \notin NodeKeys(n)
            /\ r.edges = SelectSeq(edges, LAMBDA e : e.from \in R /\ e.to \in R)

\* Two hops from @b reach the mention key_g through c: its edge is
\* returned, and the nodes returned are fewer than the keys reached.
C2_Witness ==
    /\ out.op = "getNeighbors"
    /\ out.node = key_b
    /\ out.hops = 2
    /\ ~IsError(out.result)
    /\ Edge(key_c, key_g) \in Range(out.result.edges)
    /\ Len(out.result.nodes) = 2

(* C3 *)

\* C3: getNeighbors with hops = 0 returns exactly the start node (the
\* declared node the input names) and an empty edge list, also with
\* self-loop edges and with the start node named through an alias.
C3_ZeroHops ==
    (out.op = "getNeighbors" /\ out.hops = 0 /\ ~IsError(out.result)) =>
        /\ out.result.nodes =
             SelectSeq(nodes, LAMBDA n : out.result.startKey \in NodeAliases(n))
        /\ out.result.edges = <<>>

(* C4 *)

\* Two inputs that resolve to aliases of one declared node
SameNode(x, y) ==
    /\ Resolves(x) /\ Resolves(y)
    /\ \E i \in 1..Len(nodes) :
         {resolveNodeKey(x, buildNodeIndex(nodes)),
          resolveNodeKey(y, buildNodeIndex(nodes))} \subseteq NodeAliases(nodes[i])

\* C4: the queries give the same nodes and edges / path length / common
\* set whichever alias ("@h", "h" or the id) names a node.
C4_AliasIndependent ==
    /\ (out.op = "getNeighbors" /\ ~IsError(out.result)) =>
         \A y \in InputPool : SameNode(out.node, y) =>
            LET r2 == getNeighbors(nodes, edges, y, out.hops)
            IN  r2.nodes = out.result.nodes /\ r2.edges = out.result.edges
    /\ (out.op = "shortestPath" /\ ~IsError(out.result)) =>
         \A y \in InputPool : SameNode(out.from, y) =>
            Len(shortestPath(nodes, edges, y, out.to).path) = Len(out.result.path)
    /\ (out.op = "commonNeighbors" /\ ~IsError(out.result)) =>
         \A y \in InputPool : SameNode(out.a, y) =>
            Range(commonNeighbors(nodes, edges, y, out.b).common)
              = Range(out.result.common)

(* C6 *)

\* C6: each query fails with "Node not found", and returns nothing else,
\* exactly when one of its inputs does not resolve; the error of a
\* two-argument query names the first argument that does not resolve.
C6_NodeNotFound ==
    /\ out.op = "getNeighbors" =>
         /\ IsError(out.result) <=> ~Resolves(out.node)
         /\ IsError(out.result) =>
              out.result = [error |-> "Node not found", input |-> out.node]
    /\ out.op = "shortestPath" =>
         /\ IsError(out.result) <=> (~Resolves(out.from) \/ ~Resolves(out.to))
         /\ IsError(out.result) =>
              out.result = [error |-> "Node not found",
                            input |-> IF ~Resolves(out.from) THEN out.from
                                      ELSE out.to]
    /\ out.op = "commonNeighbors" =>
         /\ IsError(out.result) <=> (~Resolves(out.a) \/ ~Resolves(out.b))
         /\ IsError(out.result) =>
              out.result = [error |-> "Node not found",
                            input |-> IF ~Resolves(out.a) THEN out.a ELSE out.b]

\* The first argument resolves, the second does not, and the error names
\* the second.
C6_Witness ==
    /\ out.op = "commonNeighbors"
    /\ Resolves(out.a)
    /\ IsError(out.result)
    /\ out.result.input = out.b
    /\ out.a # out.b

-----------------------------------------------------------------------------
(* Key resolution on its own: node lists over short strings of "@", "a"    *)
(* and "A", and every such string as input.                                *)

MaxResolveNodes == 1

Chars == {"@", "a", "A"}

\* The strings of at most two characters, the empty string among them
ShortStrings == UNION {[1..k -> Chars] : k \in {0, 1, 2}}

HandlePool == {undefined, <<"@">>, <<"@", "a">>, <<"a">>, <<"@", "A">>}
IdPool == {undefined, <<"@">>, <<"a">>, <<"@", "a">>, <<"A">>, <<"@", "@">>}
DidPool == {undefined, <<"a">>}

ResolveNodePool ==
    {Node(id, did, handle) : id \in IdPool, did \in DidPool, handle \in HandlePool}

ResolveInit ==
    /\ nodes \in SeqsUpTo(ResolveNodePool, MaxResolveNodes)
    /\ edges = <<>>
    /\ out = [op |-> "none"]
    /\ store = NoStore
    /\ now = 0

ResolveNodeKey ==
    \E input \in ShortStrings \cup {undefined} :
        /\ Idle
        /\ out' = [op |-> "resolveNodeKey", input |-> input,
                   result |-> resolveNodeKey(input, buildNodeIndex(nodes))]
        /\ UNCHANGED <<nodes, edges, store, now>>

ResolveNext == ResolveNodeKey

SpecResolve == ResolveInit /\ [][ResolveNext]_vars

(* C5 *)

\* The three forms of an input, in the order they are tried: the input,
\* the input with "@" in front (the input itself when it already starts
\* with "@"), the input with one leading "@" removed.
Forms(input) ==
    << input,
       IF Len(input) > 0 /\ input[1] = "@" THEN input ELSE <<"@">> \o input,
       IF Len(input) > 0 /\ input[1] = "@"
         THEN [i \in 1..(Len(input) - 1) |-> input[i + 1]] ELSE input >>

\* The first form that is exactly a registered key, or null
FirstRegistered(input, registered) ==
    LET f == Forms(input)
    IN  IF f[1] \in registered THEN f[1]
        ELSE IF f[2] \in registered THEN f[2]
        ELSE IF f[3] \in registered THEN f[3]
        ELSE null

\* C5 as stated: for every input string, resolveNodeKey returns the first
\* of the three forms that is registered, and null exactly when none is.
C5_AsStated ==
    (out.op = "resolveNodeKey" /\ out.input # undefined) =>
        /\ out.result = FirstRegistered(out.input, buildNodeIndex(nodes))
        /\ out.result = null <=>
             \A i \in 1..3 : Forms(out.input)[i] \notin buildNodeIndex(nodes)

\* C5 (amended): for every non-empty input string, resolveNodeKey returns
\* the first of the three forms that is exactly (case-sensitively) a
\* registered key, and null exactly when none is; for the empty string and
\* for a missing input it returns null whatever is registered.
C5_ResolveOrder ==
    out.op = "resolveNodeKey" =>
        IF out.input = undefined \/ out.input = <<>>
        THEN out.result = null
        ELSE /\ out.result = FirstRegistered(out.input, buildNodeIndex(nodes))
             /\ out.result = null <=>
                  \A i \in 1..3 : Forms(out.input)[i] \notin buildNodeIndex(nodes)

\* "a" is not registered, "@a" is: the second form is returned
C5_Witness ==
    /\ out.op = "resolveNodeKey"
    /\ out.input = <<"a">>
    /\ out.result = <<"@", "a">>

-----------------------------------------------------------------------------
(* The graphs and requests of the centrality specification *)

MaxCentralityNodes == 4
MaxCentralityEdges == 4
MaxIterations == 2

key_d == <<"@", "d">>

CentralityNodeList ==
    << Node(id_a, undefined, key_a),
       Node(undefined, undefined, key_b),
       Node(key_c, undefined, undefined),
       Node(undefined, undefined, key_d) >>

\* The four-cycle a-b-c-d-a (one edge written against the others'
\* direction), a route from c to d through the mention key_g, which is no
\* node, and a self mention.
CentralityEdgeList ==
    << Edge(key_a, key_b), Edge(key_b, key_c), Edge(key_c, key_d),
       Edge(key_a, key_d), Edge(key_c, key_g), Edge(key_g, key_d),
       Edge(key_a, key_a) >>

\* damping = 0.85, the default
DefaultDamping == Rat(17, 20)

DampingPool == {DefaultDamping, Rat(1, 2)}

CentralityInit ==
    /\ nodes \in NodeLists(CentralityNodeList, MaxCentralityNodes)
    /\ edges \in EdgeLists(CentralityEdgeList, MaxCentralityEdges)
    /\ out = [op |-> "none"]
    /\ store = NoStore
    /\ now = 0

DegreeCentrality ==
    /\ Idle
    /\ out' = [op |-> "degreeCentrality",
               result |-> degreeCentrality(nodes, edges)]
    /\ UNCHANGED <<nodes, edges, store, now>>

PageRank ==
    \E iterations \in 0..MaxIterations, damping \in DampingPool :
        /\ Idle
        /\ out' = [op |-> "pageRank", iterations |-> iterations,
                   damping |-> damping,
                   result |-> pageRank(nodes, edges, iterations, damping)]
        /\ UNCHANGED <<nodes, edges, store, now>>

BetweennessCentrality ==
    /\ Idle
    /\ out' = [op |-> "betweennessCentrality",
               result |-> betweennessCentrality(nodes, edges)]
    /\ UNCHANGED <<nodes, edges, store, now>>

CentralityNext == DegreeCentrality \/ PageRank \/ BetweennessCentrality

SpecCentrality == CentralityInit /\ [][CentralityNext]_vars

\* The keys of the declared nodes
Declared(ns) == {PrimaryKey(ns[i]) : i \in 1..Len(ns)}

\* Every endpoint of an edge is the key of a declared node
NoDanglingKeys == EdgeKeys(edges) \subseteq Declared(nodes)

(* C8 *)

\* C8: degreeCentrality maps every declared node key, and nothing else,
\* to the number of distinct keys adjacent to it in the undirected graph
\* (0 without edges, a repeated edge counted once); nodes @a, @b, c with
\* edges @a-@b, @b-c give 1, 2, 1.
C8_DegreeCentrality ==
    out.op = "degreeCentrality" =>
        /\ DOMAIN out.result = Declared(nodes)
        /\ \A k \in Declared(nodes) :
             out.result[k] = Cardinality(NeighborSet(edges, k))
        /\ (/\ Declared(nodes) = {key_a, key_b, key_c}
            /\ edges = <<Edge(key_a, key_b), Edge(key_b, key_c)>>) =>
               /\ out.result[key_a] = 1
               /\ out.result[key_b] = 2
               /\ out.result[key_c] = 1

\* A repeated edge written in both directions' order beside a third edge:
\* @a scores 2 with three edges at it, and the isolated c scores 0.
C8_Witness ==
    /\ out.op = "degreeCentrality"
    /\ edges = <<Edge(key_a, key_b), Edge(key_a, key_b), Edge(key_a, key_d)>>
    /\ Declared(nodes) = {key_a, key_b, key_c, key_d}
    /\ out.result[key_a] = 2
    /\ out.result[key_c] = 0

(* C9 *)

\* The undirected distance of two connected keys
Dist(es, x, y) ==
    CHOOSE k \in 0..Cardinality(EdgeKeys(es)) :
        /\ y \in Within(es, x, k)
        /\ \A j \in 0..(k - 1) : y \notin Within(es, x, j)

\* The number of walks of k steps from x to y
RECURSIVE Walks(_, _, _, _)
Walks(es, x, y, k) ==
    IF k = 0 THEN (IF x = y THEN 1 ELSE 0)
    ELSE LET ns == NeighborSet(es, y)
             RECURSIVE Sum(_)
             Sum(S) == IF S = {} THEN 0
                       ELSE LET u == CHOOSE u \in S : TRUE
                            IN  Walks(es, x, u, k - 1) + Sum(S \ {u})
         IN  Sum(ns)

\* The number of shortest paths between two connected keys
NumShortest(es, x, y) == Walks(es, x, y, Dist(es, x, y))

\* The share of the shortest s-t paths that pass through v
PairDependency(es, s, t, v) ==
    IF /\ Connected(es, s, t) /\ Connected(es, s, v)
       /\ Dist(es, s, v) + Dist(es, v, t) = Dist(es, s, t)
    THEN Rat(NumShortest(es, s, v) * NumShortest(es, v, t), NumShortest(es, s, t))
    ELSE Zero

\* The sum of PairDependency over the ordered pairs (s, t) of declared
\* keys with s # t, s # v, t # v
RECURSIVE SumPairs(_, _, _)
SumPairs(es, pairs, v) ==
    IF pairs = {} THEN Zero
    ELSE LET p == CHOOSE p \in pairs : TRUE
         IN  RAdd(PairDependency(es, p[1], p[2], v), SumPairs(es, pairs \ {p}, v))

Betweenness(ns, es, v) ==
    SumPairs(es, {p \in Declared(ns) \X Declared(ns) :
                    p[1] # p[2] /\ p[1] # v /\ p[2] # v}, v)

\* C9: when every edge endpoint is a declared node, betweennessCentrality
\* gives each declared node v the sum, over the ordered pairs (s, t) of
\* declared nodes with s # t, s # v, t # v and t reachable from s, of the
\* share of the shortest s-t paths that pass through v; every score is 0
\* when there are no edges.
C9_Betweenness ==
    (out.op = "betweennessCentrality" /\ NoDanglingKeys) =>
        /\ DOMAIN out.result = Declared(nodes)
        /\ \A v \in Declared(nodes) : out.result[v] = Betweenness(nodes, edges, v)
        /\ edges = <<>> => \A v \in Declared(nodes) : out.result[v] = Zero

\* The four-cycle: two shortest paths join opposite corners, each corner
\* carries half of both directions of the opposite pair, 1 in all.
C9_Witness ==
    /\ out.op = "betweennessCentrality"
    /\ NoDanglingKeys
    /\ Len(edges) = 4
    /\ \A v \in {key_a, key_b, key_c, key_d} :
         v \in DOMAIN out.result /\ out.result[v] = One

(* C10 *)

RECURSIVE SumRanks(_, _)
SumRanks(rank, keys) ==
    IF keys = {} THEN Zero
    ELSE LET k == CHOOSE k \in keys : TRUE
         IN  RAdd(rank[k], SumRanks(rank, keys \ {k}))

\* C10 as stated, on graphs with at least one declared node: when every
\* edge endpoint is a declared node (isolated declared nodes allowed), the
\* ranks pageRank returns sum to 1 for every iteration count.
C10_AsStated ==
    (out.op = "pageRank" /\ NoDanglingKeys /\ nodes # <<>>) =>
        SumRanks(out.result, DOMAIN out.result) = One

\* Every declared node has at least one neighbour
NoIsolatedNode == \A k \in Declared(nodes) : NeighborSet(edges, k) # {}

\* C10 (amended): for a graph with at least one declared node, in which
\* every edge endpoint is a declared node and every declared node has at
\* least one neighbour (itself, by a self-loop, counts), the ranks held
\* after every iteration of pageRank, and so the ranks returned for any
\* iteration count, sum to 1 in exact arithmetic; each isolated declared
\* node loses its damped rank in every iteration.
C10_PageRankConservation ==
    (out.op = "pageRank" /\ NoDanglingKeys /\ nodes # <<>>) =>
        /\ NoIsolatedNode => SumRanks(out.result, DOMAIN out.result) = One
        /\ (~NoIsolatedNode /\ out.iterations > 0) =>
             SumRanks(out.result, DOMAIN out.result) # One

\* Two iterations at the default damping on three connected nodes: the
\* ranks are no longer all equal and still sum to 1.
C10_Witness ==
    /\ out.op = "pageRank"
    /\ out.iterations = 2
    /\ out.damping = DefaultDamping
    /\ NoDanglingKeys /\ NoIsolatedNode
    /\ Cardinality(DOMAIN out.result) = 3
    /\ \E j, k \in DOMAIN out.result : out.result[j] # out.result[k]
    /\ SumRanks(out.result, DOMAIN out.result) = One

(* C11 *)

\* The keys that occur only as edge endpoints next to a declared node
ImplicitKeys ==
    {k \in EdgeKeys(edges) \ Range(nodeKeys(nodes)) :
        \E d \in Range(nodeKeys(nodes)) : Adjacent(edges, d, k)}

\* C11: after at least one iteration of pageRank, every key that occurs
\* only as an edge endpoint next to a declared node appears in the returned
\* mapping with the positive rank it received from its neighbours.
C11_ImplicitKeysRanked ==
    (out.op = "pageRank" /\ out.iterations > 0) =>
        \A k \in ImplicitKeys :
            /\ k \in DOMAIN out.result
            /\ out.result[k][1] > 0

-----------------------------------------------------------------------------
(* communities.js (src/lib/communities.js): label propagation.  Its       *)
(* loadGraph and buildAdjacency are the ones of centrality.js.            *)

\* The property name a label becomes in `counts[label]`: a label read for
\* a key that has none is undefined and is counted under "undefined"
ToPropertyKey(label) ==
    IF label = undefined THEN <<"u", "n", "d", "e", "f", "i", "n", "e", "d">>
    ELSE label

\* labels[n]
LabelGet(labels, n) == IF n \in DOMAIN labels THEN labels[n] ELSE undefined

\* counts[label] = (counts[label] || 0) + 1, counts held as the sequence
\* of its [label, count] entries in insertion order
CountPut(counts, label) ==
    IF \E e \in 1..Len(counts) : counts[e][1] = label
    THEN [e \in 1..Len(counts) |->
            IF counts[e][1] = label THEN <<label, counts[e][2] + 1>>
            ELSE counts[e]]
    ELSE Append(counts, <<label, 1>>)

\* `for (const n of neighbors)`
RECURSIVE LpCountLoop(_, _, _, _)
LpCountLoop(neighbors, j, labels, counts) ==
    IF j > Len(neighbors) THEN counts
    ELSE LpCountLoop(neighbors, j + 1, labels,
            CountPut(counts, ToPropertyKey(LabelGet(labels, neighbors[j]))))

\* The entry loop taking a label whose count is at least the best so far:
\* of the most frequent labels the last one wins
RECURSIVE LpBestLoopLast(_, _, _, _)
LpBestLoopLast(counts, e, bestLabel, bestCount) ==
    IF e > Len(counts) THEN bestLabel
    ELSE IF counts[e][2] >= bestCount
         THEN LpBestLoopLast(counts, e + 1, counts[e][1], counts[e][2])
         ELSE LpBestLoopLast(counts, e + 1, bestLabel, bestCount)

\* `for (const [label, count] of Object.entries(counts))`
RECURSIVE LpBestLoop(_, _, _, _)
LpBestLoop(counts, e, bestLabel, bestCount) ==
    IF e > Len(counts) THEN bestLabel
    ELSE IF counts[e][2] > bestCount
         THEN LpBestLoop(counts, e + 1, counts[e][1], counts[e][2])
         ELSE LpBestLoop(counts, e + 1, bestLabel, bestCount)

\* A sweep in which every key reads the labels held when the sweep began
LpKeyLoopSynchronous(adj, keys, c, labels) ==
    [k \in DOMAIN labels |->
        IF Len(AdjGet(adj, k)) = 0 THEN labels[k]
        ELSE LpBestLoop(LpCountLoop(AdjGet(adj, k), 1, labels, <<>>),
                        1, labels[k], -1)]

\* `for (const k of keys)`: one sweep, labels updated in place
RECURSIVE LpKeyLoop(_, _, _, _)
LpKeyLoop(adj, keys, c, labels) ==
    IF c > Len(keys) THEN labels
    ELSE LET k == keys[c]
             neighbors == AdjGet(adj, k)
         IN  IF Len(neighbors) = 0 THEN LpKeyLoop(adj, keys, c + 1, labels)
             ELSE LpKeyLoop(adj, keys, c + 1,
                    Put(labels, k,
                        LpBestLoop(LpCountLoop(neighbors, 1, labels, <<>>),
                                   1, labels[k], -1)))

\* keys.forEach(k => (labels[k] = k))
InitialLabels(ns) == [k \in Range(nodeKeys(ns)) |-> k]

\* One pass of `for (let i = 0; i < iterations; i++)`
LabelSweep(ns, es, labels) ==
    LpKeyLoop(centralityAdjacency(es), nodeKeys(ns), 1, labels)

\* The iteration loop breaking ties towards the last label in every
\* second pass
RECURSIVE LpIterateAlternating(_, _, _, _, _)
LpIterateAlternating(ns, es, iterations, i, labels) ==
    IF i >= iterations THEN labels
    ELSE LpIterateAlternating(ns, es, iterations, i + 1,
            IF i % 2 = 0 THEN LabelSweep(ns, es, labels)
            ELSE [k \in DOMAIN labels |->
                    LET neighbors == AdjGet(centralityAdjacency(es), k)
                    IN  IF Len(neighbors) = 0 THEN labels[k]
                        ELSE LpBestLoopLast(
                                LpCountLoop(neighbors, 1, labels, <<>>),
                                1, labels[k], -1)])

RECURSIVE LpIterate(_, _, _, _, _)
LpIterate(ns, es, iterations, i, labels) ==
    IF i >= iterations THEN labels
    ELSE LpIterate(ns, es, iterations, i + 1, LabelSweep(ns, es, labels))

labelPropagation(ns, es, iterations) ==
    LpIterate(ns, es, iterations, 0, InitialLabels(ns))

-----------------------------------------------------------------------------
(* The two-triangle graphs of the label propagation scenario *)

MaxSweeps == 3

key_e == <<"@", "e">>
key_f == <<"@", "f">>

TriangleOne == {key_a, key_b, key_c}
TriangleTwo == {key_d, key_e, key_f}

TriangleOneNodes == {Node(undefined, undefined, k) : k \in TriangleOne}
TriangleTwoNodes == {Node(undefined, undefined, k) : k \in TriangleTwo}

TriangleOneEdges == {Edge(key_a, key_b), Edge(key_b, key_c), Edge(key_c, key_a)}
TriangleTwoEdges == {Edge(key_d, key_e), Edge(key_f, key_e), Edge(key_d, key_f)}

\* Every order in which the elements of S can be listed
RECURSIVE Orders(_)
Orders(S) ==
    IF S = {} THEN {<<>>}
    ELSE UNION {{<<x>> \o rest : rest \in Orders(S \ {x})} : x \in S}

\* p and q of equal length, taken in turn
Alternate(p, q) ==
    [i \in 1..(2 * Len(p)) |-> IF i % 2 = 1 THEN p[(i + 1) \div 2] ELSE q[i \div 2]]

\* Every order of the elements of S and every order of those of T, the two
\* groups one after the other or in turn.  The triangles share no key, so
\* what a key's label becomes depends on the order of its own triangle's
\* nodes and edges only.
TriangleLists(S, T) ==
    UNION {{p \o q, q \o p, Alternate(p, q)} : p \in Orders(S), q \in Orders(T)}

TriangleInit ==
    /\ nodes \in TriangleLists(TriangleOneNodes, TriangleTwoNodes)
    /\ edges \in TriangleLists(TriangleOneEdges, TriangleTwoEdges)
    /\ out = [op |-> "none"]
    /\ store = NoStore
    /\ now = 0

LabelPropagation ==
    \E iterations \in 0..MaxSweeps :
        /\ Idle
        /\ out' = [op |-> "labelPropagation", iterations |-> iterations,
                   result |-> labelPropagation(nodes, edges, iterations)]
        /\ UNCHANGED <<nodes, edges, store, now>>

TriangleNext == LabelPropagation

SpecTriangles == TriangleInit /\ [][TriangleNext]_vars

\* The labelling gives the keys of S one common label
OneLabel(labels, S) == \A x, y \in S : labels[x] = labels[y]

\* One more sweep leaves every label as it is
Converged(labels) == LabelSweep(nodes, edges, labels) = labels

\* Exactly two distinct labels, one per triangle
TwoCommunities(labels) ==
    /\ OneLabel(labels, TriangleOne)
    /\ OneLabel(labels, TriangleTwo)
    /\ Cardinality({labels[k] : k \in DOMAIN labels}) = 2

(* C12 *)

\* C12: on two disjoint triangles, for every order of the node list and of
\* the edge list, there is an iteration count n whose labelling a further
\* sweep leaves unchanged and which has exactly two distinct labels, one
\* shared by the three nodes of each triangle; every run of at least n
\* iterations returns that labelling.
C12_TwoTriangles ==
    out.op = "labelPropagation" =>
        \E n \in 0..MaxSweeps :
            LET l == labelPropagation(nodes, edges, n)
            IN  /\ Converged(l)
                /\ TwoCommunities(l)
                /\ out.iterations >= n => out.result = l

\* Two sweeps over two triangles whose first sweep did not yet settle on
\* two labels: the second sweep did, and a third would change nothing.
C12_Witness ==
    /\ out.op = "labelPropagation"
    /\ out.iterations = 2
    /\ ~TwoCommunities(labelPropagation(nodes, edges, 1))
    /\ TwoCommunities(out.result)
    /\ Converged(out.result)

-----------------------------------------------------------------------------
(* Label propagation on the graphs of the centrality specification *)

CommunitiesNext == LabelPropagation

SpecCommunities == CentralityInit /\ [][CommunitiesNext]_vars

(* C13 *)

-----------------------------------------------------------------------------
(* recommender.js (src/lib/recommender.js, the version with mutual-friend  *)
(* and community signals, lines 307-705).  Numbers are exact rationals;    *)
(* the text matching of calculateRelevance is represented by its match     *)
(* counts, and a time by its number of hours.                              *)

\* x < y and x <= y on rationals
RLess(x, y) == x[1] * y[2] < y[1] * x[2]
RLeq(x, y) == x[1] * y[2] <= y[1] * x[2]

\* Math.min(x, y)
RMin(x, y) == IF RLess(y, x) THEN y ELSE x

\* Math.round(x * 1000) / 1000, Math.round rounding halves upwards
Round3(x) == Rat((2 * 1000 * x[1] + x[2]) \div (2 * x[2]), 1000)

\* A graph node and a graph edge as the recommender reads them
FeedNode(handle, community) == [handle |-> handle, community |-> community]
FeedEdge(from, to, strength) == [from |-> from, to |-> to, strength |-> strength]

\* graph.edges.find(...): the position of the first edge joining the two
\* handles, 0 when find returns undefined
RECURSIVE FindDirectEdge(_, _, _, _)
FindDirectEdge(es, i, myHandle, agentHandle) ==
    IF i > Len(es) THEN 0
    ELSE IF \/ (es[i].from = myHandle /\ es[i].to = agentHandle)
            \/ (es[i].from = agentHandle /\ es[i].to = myHandle)
         THEN i
         ELSE FindDirectEdge(es, i + 1, myHandle, agentHandle)

\* graph.edges.filter(e => e.from === handle).map(e => e.to)
FriendsOf(es, handle) ==
    LET own == SelectSeq(es, LAMBDA e : e.from = handle)
    IN  [i \in 1..Len(own) |-> own[i].to]

\* friendsOfMine.filter(f => theirFriends.includes(f))
MutualFriends(es, myHandle, agentHandle) ==
    SelectSeq(FriendsOf(es, myHandle),
              LAMBDA f : Contains(FriendsOf(es, agentHandle), f))

calculateMutualFriends(myHandle, agentHandle, es) ==
    Len(MutualFriends(es, myHandle, agentHandle))

\* graph.nodes.find(n => n.handle === handle): the position of the first
\* node with the handle, 0 when find returns undefined
RECURSIVE FindNode(_, _, _)
FindNode(ns, i, handle) ==
    IF i > Len(ns) THEN 0
    ELSE IF ns[i].handle = handle THEN i
         ELSE FindNode(ns, i + 1, handle)

\* The strength of an edge that carries none (undefined where a number is
\* expected): the pair with denominator 0, which no number equals
NoStrength == <<0, 0>>

\* directEdge.strength || 0.5: undefined and 0 are both falsy
StrengthOrDefault(strength) ==
    IF strength = NoStrength \/ strength[1] = 0 THEN Rat(1, 2) ELSE strength

\* calculateConnectionStrength returning mutualFriends.length * 0.1 for
\* friends of friends, without the 0.3 it starts from
calculateConnectionStrengthNoBase(myHandle, agentHandle, ns, es) ==
    LET directEdge == FindDirectEdge(es, 1, myHandle, agentHandle)
        mutual == Len(MutualFriends(es, myHandle, agentHandle))
        myNode == FindNode(ns, 1, myHandle)
        theirNode == FindNode(ns, 1, agentHandle)
    IN  IF directEdge # 0 THEN StrengthOrDefault(es[directEdge].strength)
        ELSE IF mutual > 0 THEN Rat(mutual, 10)
        ELSE IF /\ myNode # 0
                /\ theirNode # 0
                /\ ns[myNode].community = ns[theirNode].community
             THEN Rat(1, 5)
        ELSE Zero

calculateConnectionStrength(myHandle, agentHandle, ns, es) ==
    LET directEdge == FindDirectEdge(es, 1, myHandle, agentHandle)
        mutual == Len(MutualFriends(es, myHandle, agentHandle))
        myNode == FindNode(ns, 1, myHandle)
        theirNode == FindNode(ns, 1, agentHandle)
    IN  IF directEdge # 0 THEN StrengthOrDefault(es[directEdge].strength)
        ELSE IF mutual > 0 THEN RAdd(Rat(3, 10), Rat(mutual, 10))
        ELSE IF /\ myNode # 0
                /\ theirNode # 0
                /\ ns[myNode].community = ns[theirNode].community
             THEN Rat(1, 5)
        ELSE Zero

calculateCommunityMatch(myHandle, agentHandle, ns) ==
    LET myNode == FindNode(ns, 1, myHandle)
        theirNode == FindNode(ns, 1, agentHandle)
    IN  IF /\ myNode # 0
           /\ theirNode # 0
           /\ Truthy(ns[myNode].community)
           /\ Truthy(ns[theirNode].community)
        THEN (IF ns[myNode].community = ns[theirNode].community THEN 1 ELSE 0)
        ELSE 0

\* inferCommunityFromSubmolt(post) is truthy
HasSubmolt(post) == Truthy(post.submolt)

\* calculateRecency, on the hours between the post's timestamp and the clock
calculateRecency(timestamp) ==
    LET hoursAgo == now - timestamp
    IN  IF hoursAgo < 6 THEN One
        ELSE IF hoursAgo < 24 THEN Rat(1, 2)
        ELSE IF hoursAgo < 168 THEN Rat(3, 10)
        ELSE Rat(1, 10)

calculateActivity(handle, es) ==
    LET agentEdges == SelectSeq(es, LAMBDA e : e.from = handle \/ e.to = handle)
    IN  IF Len(agentEdges) = 0 THEN Rat(1, 10)
        ELSE IF Len(agentEdges) < 5 THEN Rat(3, 10)
        ELSE IF Len(agentEdges) < 15 THEN Rat(3, 5)
        ELSE One


\* A post of posts.json: calculateRelevance's three match counts stand for
\* its text, timestamp is in hours
Post(id, author, matches, interestMatches, stuckMatches, timestamp, submolt) ==
    [id |-> id, author_handle |-> author, matches |-> matches,
     interestMatches |-> interestMatches, stuckMatches |-> stuckMatches,
     timestamp |-> timestamp, submolt |-> submolt]

\* calculateRelevance(...).score, for needs.length = needs
calculateRelevance(needs, post) ==
    LET base == RMin(Rat(post.matches, IF needs > 1 THEN needs ELSE 1), One)
        withInterest ==
            IF post.interestMatches > 0
            THEN RMin(One, RAdd(base, RMin(Rat(3, 10), Rat(post.interestMatches, 20))))
            ELSE base
    IN  IF post.stuckMatches > 0 THEN RMin(One, RAdd(withInterest, Rat(1, 5)))
        ELSE withInterest

\* determineSection with the people_you_should_know test before the
\* connection-strength tests
determineSectionMutualFirst(score, relevance, connectionStrength, mutualCount) ==
    IF RLess(Rat(3, 5), relevance) THEN "high_priority"
    ELSE IF mutualCount >= 2 THEN "people_you_should_know"
    ELSE IF RLess(Rat(3, 10), connectionStrength)
            /\ RLess(connectionStrength, Rat(7, 10)) THEN "explore"
    ELSE IF RLeq(Rat(7, 10), connectionStrength) THEN "community"
    ELSE "serendipity"

determineSection(score, relevance, connectionStrength, mutualCount) ==
    IF RLess(Rat(3, 5), relevance) THEN "high_priority"
    ELSE IF RLess(Rat(3, 10), connectionStrength)
            /\ RLess(connectionStrength, Rat(7, 10)) THEN "explore"
    ELSE IF RLeq(Rat(7, 10), connectionStrength) THEN "community"
    ELSE IF mutualCount >= 2 THEN "people_you_should_know"
    ELSE "serendipity"

\* The body of `for (const post of posts)`: the item pushed onto scored
ScorePost(post, ns, es, baseline, dailyNeeds) ==
    LET relevance == IF dailyNeeds.present
                     THEN calculateRelevance(dailyNeeds.needs, post) ELSE Zero
        selfHandle == Or2(baseline.handle, <<>>)
        has == Truthy(selfHandle)
        connectionStrength ==
            IF has THEN calculateConnectionStrength(selfHandle, post.author_handle, ns, es)
            ELSE Zero
        mutualCount ==
            IF has THEN calculateMutualFriends(selfHandle, post.author_handle, es) ELSE 0
        communityMatch ==
            IF has THEN calculateCommunityMatch(selfHandle, post.author_handle, ns) ELSE 0
        recency == calculateRecency(post.timestamp)
        activity == calculateActivity(post.author_handle, es)
        mutualBonus == RMin(Rat(mutualCount, 20), Rat(1, 5))
        communityBonus ==
            IF communityMatch # 0 \/ (HasSubmolt(post) /\ Truthy(baseline.handle))
            THEN Rat(1, 10) ELSE Zero
        score ==
            RAdd(RAdd(RAdd(RAdd(RAdd(RMul(relevance, Rat(2, 5)),
                                     RMul(connectionStrength, Rat(3, 10))),
                                RMul(recency, Rat(1, 5))),
                           RMul(activity, Rat(1, 10))),
                      mutualBonus),
                 communityBonus)
    IN  [id |-> post.id, author_handle |-> post.author_handle,
         score |-> Round3(score),
         relevance |-> Round3(relevance),
         connection_strength |-> Round3(connectionStrength),
         mutual_count |-> mutualCount,
         section |-> determineSection(score, relevance, connectionStrength,
                                      mutualCount)]


\* Array.prototype.sort is stable: an item goes behind every item whose
\* score is not lower (b.score - a.score <= 0 keeps the earlier one first)
RECURSIVE InsertByScore(_, _, _)
InsertByScore(sorted, i, item) ==
    IF i > Len(sorted) THEN Append(sorted, item)
    ELSE IF RLess(sorted[i].score, item.score)
         THEN SubSeq(sorted, 1, i - 1) \o <<item>> \o SubSeq(sorted, i, Len(sorted))
         ELSE InsertByScore(sorted, i + 1, item)

\* scored.sort((a, b) => b.score - a.score)
RECURSIVE SortByScore(_, _, _)
SortByScore(scored, i, sorted) ==
    IF i > Len(scored) THEN sorted
    ELSE SortByScore(scored, i + 1, InsertByScore(sorted, 1, scored[i]))

\* array.slice(0, n)
Slice(s, n) == SubSeq(s, 1, IF Len(s) < n THEN Len(s) ELSE n)

\* The threshold filter without the cap of 20
AboveThresholdUncapped(scored) ==
    SelectSeq(scored, LAMBDA item : RLess(Rat(1, 20), item.score))

\* scored.filter(item => item.score > 0.05).slice(0, 20)
AboveThreshold(scored) ==
    Slice(SelectSeq(scored, LAMBDA item : RLess(Rat(1, 20), item.score)), 20)

\* A fallback of one post more than five
FallbackSix(scored) == Slice(scored, 6)

\* scored.slice(0, 5)
Fallback(scored) == Slice(scored, 5)

\* The graph generateFeed scores against: the self node is added when the
\* baseline names a handle no node carries
GraphNodes(ns, baseline) ==
    IF Truthy(baseline.handle) /\ FindNode(ns, 1, baseline.handle) = 0
    THEN Append(ns, FeedNode(baseline.handle, undefined))
    ELSE ns

generateFeed(ns, es, posts, baseline, dailyNeeds) ==
    IF ~baseline.present THEN [error |-> "Baseline not found"]
    ELSE LET graphNodes == GraphNodes(ns, baseline)
             scored == SortByScore(
                          [i \in 1..Len(posts) |->
                              ScorePost(posts[i], graphNodes, es, baseline, dailyNeeds)],
                          1, <<>>)
             feed == AboveThreshold(scored)
         IN  [feed |-> IF Len(feed) > 0 THEN feed ELSE Fallback(scored)]

-----------------------------------------------------------------------------
(* The social directories of the feed specification: few graphs, long     *)
(* post lists                                                              *)

MaxPosts == 22
MaxPattern == 2

\* The clock, in hours
FeedClock == 200

\* An old post by an author without edges, an old post by an author with
\* an edge, a fresh post, and an old post that matches both daily needs
PostKinds ==
    << [author |-> key_d, matches |-> 0, timestamp |-> 0],
       [author |-> key_b, matches |-> 0, timestamp |-> 0],
       [author |-> key_d, matches |-> 0, timestamp |-> 199],
       [author |-> key_d, matches |-> 2, timestamp |-> 0] >>

\* The post list of n posts whose kinds repeat the pattern
PostList(n, pattern) ==
    [i \in 1..n |->
        LET kind == PostKinds[pattern[((i - 1) % Len(pattern)) + 1]]
        IN  Post(i, kind.author, kind.matches, 0, 0, kind.timestamp, undefined)]

PostLists ==
    {PostList(n, pattern) :
        n \in 0..MaxPosts,
        pattern \in UNION {[1..l -> 1..Len(PostKinds)] : l \in 1..MaxPattern}}

\* baseline.json: missing, without a handle, with the handle @a
BaselinePool ==
    { [present |-> FALSE, handle |-> undefined],
      [present |-> TRUE, handle |-> undefined],
      [present |-> TRUE, handle |-> key_a] }

\* daily needs: none, or two needs
DailyNeedsPool == {[present |-> FALSE, needs |-> 0], [present |-> TRUE, needs |-> 2]}

FeedGraphs ==
    { [nodes |-> <<>>, edges |-> <<>>],
      [nodes |-> <<>>, edges |-> <<FeedEdge(key_b, key_g, NoStrength)>>] }

FeedInit ==
    /\ \E g \in FeedGraphs : nodes = g.nodes /\ edges = g.edges
    /\ store \in [posts : PostLists, baseline : BaselinePool,
                  dailyNeeds : DailyNeedsPool]
    /\ now = FeedClock
    /\ out = [op |-> "none"]

GenerateFeed ==
    /\ Idle
    /\ out' = [op |-> "generateFeed",
               result |-> generateFeed(nodes, edges, store.posts,
                                       store.baseline, store.dailyNeeds)]
    /\ UNCHANGED <<nodes, edges, store, now>>

FeedNext == GenerateFeed

SpecFeed == FeedInit /\ [][FeedNext]_vars

\* generateFeed returned a feed, not the missing-baseline error
FeedReturned == out.op = "generateFeed" /\ "feed" \in DOMAIN out.result

\* The scores generateFeed gives the candidate posts, by post id
ScoreOf(id) ==
    ScorePost(store.posts[id], GraphNodes(nodes, store.baseline), edges,
              store.baseline, store.dailyNeeds).score

Candidates == 1..Len(store.posts)

\* Some candidate post scores above 0.05
SomeAboveThreshold == \E id \in Candidates : RLess(Rat(1, 20), ScoreOf(id))

FeedIds(feed) == {feed[i].id : i \in 1..Len(feed)}

\* No post is listed twice and every listed post is a candidate with its score
FeedOfCandidates(feed) ==
    /\ \A i \in 1..Len(feed) :
          feed[i].id \in Candidates /\ feed[i].score = ScoreOf(feed[i].id)
    /\ \A i, j \in 1..Len(feed) : feed[i].id = feed[j].id => i = j

\* Non-increasing score order
NonIncreasing(feed) ==
    \A i \in 1..(Len(feed) - 1) : RLeq(feed[i + 1].score, feed[i].score)


(* C14 *)

\* C14: when generateFeed has candidate posts and none scores above 0.05,
\* the feed it returns is non-empty, has at most 5 posts, lists candidates
\* with their scores, none twice, and no post left out scores higher than
\* a post listed; and whatever the scores, an empty feed is returned only
\* for an empty candidate list.
C14_FeedFallback ==
    FeedReturned =>
        LET feed == out.result.feed
        IN  /\ (Candidates # {} /\ ~SomeAboveThreshold) =>
                  /\ Len(feed) > 0
                  /\ Len(feed) <= 5
                  /\ FeedOfCandidates(feed)
                  /\ \A id \in Candidates \ FeedIds(feed) :
                        \A i \in 1..Len(feed) : RLeq(ScoreOf(id), feed[i].score)
            /\ feed = <<>> => Candidates = {}

\* More than five candidates, none above 0.05 and not all with the same
\* score: five are shown, the best of them first, and a lower one is left out.
C14_Witness ==
    /\ FeedReturned
    /\ Len(store.posts) > 5
    /\ ~SomeAboveThreshold
    /\ Len(out.result.feed) = 5
    /\ \E id \in Candidates \ FeedIds(out.result.feed) :
          RLess(ScoreOf(id), out.result.feed[5].score)

(* C15 *)

-----------------------------------------------------------------------------
(* The social directories of the connection specification: one post by    *)
(* @b read by the agent @a, over varied graphs                             *)

MaxMutual == 4

\* Edge strengths: none, 0, and values below, between and above the two
\* bucket thresholds
StrengthPool == {NoStrength, Zero, Rat(1, 10), Rat(1, 2), Rat(7, 10), One}

\* The edges between the agent and the author, in file order
DirectEdgeLists ==
    {<<>>}
    \cup {<<FeedEdge(key_a, key_b, s)>> : s \in StrengthPool}
    \cup {<<FeedEdge(key_b, key_a, s)>> : s \in {NoStrength, Zero, One}}
    \cup {<<FeedEdge(key_b, key_a, Rat(1, 10)), FeedEdge(key_a, key_b, One)>>}

MutualKeys == <<key_c, key_d, key_e, key_f, key_g>>

\* m keys that both the agent and the author have an edge to
RECURSIVE MutualEdges(_)
MutualEdges(m) ==
    IF m = 0 THEN <<>>
    ELSE MutualEdges(m - 1) \o
         <<FeedEdge(key_a, MutualKeys[m], NoStrength),
           FeedEdge(key_b, MutualKeys[m], NoStrength)>>

\* A key with an edge to the agent and to the author: a neighbour of both
\* that neither of them lists as a friend
InboundEdges == <<FeedEdge(key_g, key_a, NoStrength), FeedEdge(key_g, key_b, NoStrength)>>

ConnectionEdgeLists ==
    UNION {{d \o rest, rest \o d} :
             d \in DirectEdgeLists,
             rest \in {MutualEdges(m) : m \in 0..MaxMutual} \cup {InboundEdges}}

CommunityPool == {undefined, <<"x">>, <<"y">>}

\* nodes.json: the agent and the author, each present or not
ConnectionNodeLists ==
    UNION {{<<>>, <<FeedNode(key_a, ca)>>, <<FeedNode(key_b, cb)>>,
            <<FeedNode(key_a, ca), FeedNode(key_b, cb)>>} :
             ca \in {undefined, <<"x">>}, cb \in CommunityPool}

\* The post of @b: relevance 0, 1/2, 1/2 + 2 * 0.05 = 0.6, and 1
ConnectionPosts ==
    {<<Post(1, key_b, matches, interestMatches, 0, 0, undefined)>> :
        matches \in 0..2, interestMatches \in {0, 2}}

ConnectionInit ==
    /\ nodes \in ConnectionNodeLists
    /\ edges \in ConnectionEdgeLists
    /\ store \in [posts : ConnectionPosts,
                  baseline : {[present |-> TRUE, handle |-> key_a]},
                  dailyNeeds : {[present |-> TRUE, needs |-> 2]}]
    /\ now = FeedClock
    /\ out = [op |-> "none"]

SpecConnection == ConnectionInit /\ [][FeedNext]_vars

\* The item generateFeed returned for the one post
FeedItem == out.result.feed[1]

\* The signals of the post, before they are rounded for display
PostRelevance == calculateRelevance(store.dailyNeeds.needs, store.posts[1])
PostConnectionStrength ==
    calculateConnectionStrength(key_a, key_b, GraphNodes(nodes, store.baseline), edges)

(* C16 *)

\* C16: every post is given exactly the bucket of the first test that
\* succeeds: high_priority iff relevance > 0.6; otherwise explore iff
\* 0.3 < connection strength < 0.7; otherwise community iff connection
\* strength >= 0.7; otherwise people_you_should_know iff the mutual-friend
\* count is at least 2; otherwise serendipity.
C16_Bucketing ==
    FeedReturned =>
        LET high == RLess(Rat(3, 5), PostRelevance)
            mid == /\ RLess(Rat(3, 10), PostConnectionStrength)
                   /\ RLess(PostConnectionStrength, Rat(7, 10))
            strong == RLeq(Rat(7, 10), PostConnectionStrength)
            known == FeedItem.mutual_count >= 2
        IN  /\ FeedItem.section = "high_priority" <=> high
            /\ FeedItem.section = "explore" <=> (~high /\ mid)
            /\ FeedItem.section = "community" <=> (~high /\ ~mid /\ strong)
            /\ FeedItem.section = "people_you_should_know" <=>
                  (~high /\ ~mid /\ ~strong /\ known)
            /\ FeedItem.section = "serendipity" <=>
                  (~high /\ ~mid /\ ~strong /\ ~known)

\* A post at relevance 0.6 exactly, with two mutual friends and a weak
\* direct edge: no earlier test succeeds and it is a person to know.
C16_Witness ==
    /\ FeedReturned
    /\ PostRelevance = Rat(3, 5)
    /\ FeedItem.mutual_count = 2
    /\ PostConnectionStrength = Rat(1, 10)
    /\ FeedItem.section = "people_you_should_know"


(* C17 *)

\* The first edge of edges.json that joins the agent and the author
DirectEdge == FindDirectEdge(edges, 1, key_a, key_b)

\* C17: when an edge joins the agent and the post's author, in either
\* direction, the connection strength of the post is that edge's strength
\* whenever it carries one (0 included), and 0.5 when it carries none.
C17_DirectEdgeStrength ==
    (FeedReturned /\ DirectEdge # 0) =>
        FeedItem.connection_strength =
            IF edges[DirectEdge].strength = NoStrength THEN Rat(1, 2)
            ELSE edges[DirectEdge].strength

(* C18 *)

\* Some key is joined by an edge, in either direction, to both handles
MutualNeighbour(x, y) ==
    \E k \in EdgeKeys(edges) : Adjacent(edges, x, k) /\ Adjacent(edges, y, k)

\* Both handles have a node, and the first node of each carries the same
\* community value
ShareCommunity(x, y) ==
    LET nx == FindNode(nodes, 1, x)
        ny == FindNode(nodes, 1, y)
    IN  /\ nx # 0
        /\ ny # 0
        /\ Truthy(nodes[nx].community)
        /\ nodes[nx].community = nodes[ny].community

\* C18: without a direct edge, a mutual neighbour or a shared community
\* attribute the connection strength of the post is 0 (so it is 0 when
\* neither node has a community attribute), and a connection strength of
\* 0.2 is given only to nodes that carry the same community value.
C18_NoConnectionIsZero ==
    FeedReturned =>
        /\ (/\ DirectEdge = 0
            /\ ~MutualNeighbour(key_a, key_b)
            /\ ~ShareCommunity(key_a, key_b)) =>
               FeedItem.connection_strength = Zero
        /\ (DirectEdge = 0 /\ FeedItem.connection_strength = Rat(1, 5)) =>
               ShareCommunity(key_a, key_b)

-----------------------------------------------------------------------------
(* solana.js (src/unnamed/part_006, lines 126-573): wallet binding.  A     *)
(* time is a number of minutes; crypto.randomUUID() returns the number of  *)
(* identifiers issued so far plus one; store.challenges is                 *)
(* solana-challenges.json, store.issued the identifiers issued.  out also  *)
(* keeps, in verified, the challenges whose verification has succeeded.    *)

\* A time that is not there: usedAt: null, a node without walletVerifiedAt
NoTime == -1

\* normalizeHandle
normalizeHandle(handle) == IF ~Truthy(handle) THEN <<>> ELSE withAt(handle)

\* A node of nodes.json with its wallet fields
WalletNode(id, handle, walletAddress, walletVerifiedAt, walletChallengeId, trust) ==
    [id |-> id, handle |-> handle, walletAddress |-> walletAddress,
     walletVerifiedAt |-> walletVerifiedAt,
     walletChallengeId |-> walletChallengeId, trustScoreOnchain |-> trust]

\* upsertWalletOnNode: nodes.json after the call
upsertWalletOnNode(ns, handle, walletAddress, challengeId) ==
    LET normalizedHandle == normalizeHandle(handle)
        matches(node) == node.handle = normalizedHandle \/ node.id = normalizedHandle
        updated == [i \in 1..Len(ns) |->
                      IF matches(ns[i])
                      THEN WalletNode(ns[i].id, ns[i].handle, walletAddress, now,
                                      challengeId,
                                      IF ns[i].trustScoreOnchain > 1
                                      THEN ns[i].trustScoreOnchain ELSE 1)
                      ELSE ns[i]]
    IN  IF \E i \in 1..Len(ns) : matches(ns[i]) THEN updated
        ELSE Append(updated,
                    WalletNode(normalizedHandle, normalizedHandle, walletAddress,
                               now, challengeId, 1))

\* challenges.find((c) => c.challengeId === challengeId): its position, 0
\* when there is none
RECURSIVE FindChallenge(_, _, _)
FindChallenge(challenges, i, challengeId) ==
    IF i > Len(challenges) THEN 0
    ELSE IF challenges[i].challengeId = challengeId THEN i
         ELSE FindChallenge(challenges, i + 1, challengeId)

\* The two tests with the test of usedAt left out
ChallengeOpenIgnoringUse(c) == ~(c.expiresAt <= now)

\* Neither `if (challenge.usedAt) throw` nor
\* `if (new Date(challenge.expiresAt).getTime() <= Date.now()) throw`
ChallengeOpen(c) == c.usedAt = NoTime /\ ~(c.expiresAt <= now)

\* challenges.filter((c) => !c.usedAt && new Date(c.expiresAt).getTime() > Date.now())
ActiveChallenges(challenges) ==
    SelectSeq(challenges, LAMBDA c : c.usedAt = NoTime /\ c.expiresAt > now)

\* The error verifyWalletBinding throws, "" when it throws none
VerifyError(challenges, challengeId, signatureValid, handle, walletAddress) ==
    LET i == FindChallenge(challenges, 1, challengeId)
    IN  IF i = 0 THEN "Challenge not found"
        ELSE IF ~ChallengeOpen(challenges[i])
             THEN (IF challenges[i].usedAt # NoTime
                   THEN "Challenge already used" ELSE "Challenge expired")
        ELSE IF Truthy(handle) /\ normalizeHandle(handle) # challenges[i].handle
             THEN "Handle does not match challenge"
        ELSE IF Truthy(walletAddress) /\ walletAddress # challenges[i].walletAddress
             THEN "Wallet does not match challenge"
        ELSE IF ~signatureValid THEN "Invalid signature"
        ELSE ""


(* The calls of the wallet specification *)

MaxChallenges == 2
MaxClock == 3
MaxTtl == 2

wallet_1 == <<"W", "1">>
wallet_2 == <<"W", "2">>

WalletInit ==
    /\ nodes \in {<<>>, <<WalletNode(id_a, key_a, undefined, NoTime, 0, 0)>>}
    /\ edges = <<>>
    /\ store = [challenges |-> <<>>, issued |-> 0]
    /\ now = 0
    /\ out = [op |-> "none", verified |-> {}]

\* createWalletBindingChallenge, for a handle and a wallet address given
CreateWalletBindingChallenge ==
    \E handle \in {key_a, <<"b">>}, walletAddress \in {wallet_1, wallet_2},
       ttlMinutes \in 0..MaxTtl :
        /\ store.issued < MaxChallenges
        /\ LET challengeId == store.issued + 1
               challenge == [challengeId |-> challengeId,
                             handle |-> normalizeHandle(handle),
                             walletAddress |-> walletAddress,
                             expiresAt |-> now + ttlMinutes,
                             usedAt |-> NoTime]
           IN  /\ store' = [challenges |->
                               Append(ActiveChallenges(store.challenges), challenge),
                            issued |-> challengeId]
               /\ out' = [op |-> "createWalletBindingChallenge",
                          challengeId |-> challengeId,
                          verified |-> out.verified]
        /\ UNCHANGED <<nodes, edges, now>>

\* verifyWalletBinding, for a challenge id and a signature given;
\* signatureValid is what nacl.sign.detached.verify returns for the
\* signature, the challenge's message and the challenge's wallet
VerifyWalletBinding ==
    \E challengeId \in 1..MaxChallenges, signatureValid \in BOOLEAN,
       handle \in {undefined, <<"a">>, <<"@", "b">>},
       walletAddress \in {undefined, wallet_1} :
        LET error == VerifyError(store.challenges, challengeId, signatureValid,
                                 handle, walletAddress)
            i == FindChallenge(store.challenges, 1, challengeId)
        IN  IF error # ""
            THEN /\ out' = [op |-> "verifyWalletBinding",
                            challengeId |-> challengeId, error |-> error,
                            verified |-> out.verified]
                 /\ UNCHANGED <<nodes, edges, store, now>>
            ELSE /\ store' = [store EXCEPT !.challenges[i].usedAt = now]
                 /\ nodes' = upsertWalletOnNode(nodes, store.challenges[i].handle,
                                                store.challenges[i].walletAddress,
                                                challengeId)
                 /\ out' = [op |-> "verifyWalletBinding",
                            challengeId |-> challengeId, error |-> "",
                            verified |-> out.verified \cup {challengeId}]
                 /\ UNCHANGED <<edges, now>>

\* A minute passes
Tick ==
    /\ now < MaxClock
    /\ now' = now + 1
    /\ UNCHANGED <<nodes, edges, store, out>>

WalletNext == CreateWalletBindingChallenge \/ VerifyWalletBinding \/ Tick

SpecWallet == WalletInit /\ [][WalletNext]_vars

(* C19 *)

\* C19: in every sequence of createWalletBindingChallenge and
\* verifyWalletBinding calls, a verifyWalletBinding call succeeds only if
\* the challenge is in solana-challenges.json, has not been used, has not
\* succeeded before and the time is before its expiry; and a
\* verifyWalletBinding call for a challenge that has succeeded before fails
\* and leaves nodes.json as it was.
C19_SingleUse ==
    [][(out' # out /\ out'.op = "verifyWalletBinding") =>
          LET i == FindChallenge(store.challenges, 1, out'.challengeId)
          IN  /\ out'.error = "" =>
                    /\ i # 0
                    /\ store.challenges[i].usedAt = NoTime
                    /\ now < store.challenges[i].expiresAt
                    /\ out'.challengeId \notin out.verified
              /\ out'.challengeId \in out.verified =>
                    out'.error # "" /\ nodes' = nodes]_vars

\* A challenge whose verification succeeded has just been presented again
\* before its expiry, with a valid signature or not, and was refused.
C19_Witness ==
    /\ out.op = "verifyWalletBinding"
    /\ out.challengeId \in out.verified
    /\ out.error = "Challenge already used"
    /\ \E i \in 1..Len(store.challenges) :
          /\ store.challenges[i].challengeId = out.challengeId
          /\ now < store.challenges[i].expiresAt

-----------------------------------------------------------------------------
(* solana.js proofs and payments, and the writers of edges.json: graph    *)
(* collection (saveGraphData, src/unnamed/part_005) and graph import      *)
(* (src/cli.js).  store.proofs is proofs.json, store.payments is           *)
(* payments.json, store.posts is posts.json.                               *)

MaxRecords == 2

\* An edge of edges.json; a collected or imported edge has no proofId and
\* no txSignature
LedgerEdge(from, to, type, proofId, txSignature) ==
    [from |-> from, to |-> to, type |-> type, proofId |-> proofId,
     txSignature |-> txSignature]

tx_1 == <<"t", "x", "1">>

\* What a collection run or an import file holds: nothing, or one node,
\* one mention and one post
GraphDataPool ==
    { [posts |-> <<>>, nodes |-> <<>>, edges |-> <<>>],
      [posts |-> <<key_b>>,
       nodes |-> <<WalletNode(key_b, key_b, undefined, NoTime, 0, 0)>>,
       edges |-> <<LedgerEdge(key_b, key_a, "mention", 0, undefined)>>] }

LedgerInit ==
    /\ nodes = <<>>
    /\ edges = <<>>
    /\ store = [proofs |-> <<>>, payments |-> <<>>, posts |-> <<>>, issued |-> 0]
    /\ now = 0
    /\ out = [op |-> "none"]

\* recordInteractionProof with verifyTx = false; a call without from, to or
\* proofType throws before anything is written
RecordInteractionProof ==
    \E from \in {undefined, <<"a">>}, to \in {key_b},
       proofType \in {undefined, <<"i", "n", "t", "r", "o">>},
       txSignature \in {undefined, tx_1} :
        IF ~Truthy(from) \/ ~Truthy(to) \/ ~Truthy(proofType)
        THEN /\ out' = [op |-> "recordInteractionProof", error |-> TRUE]
             /\ UNCHANGED <<nodes, edges, store, now>>
        ELSE /\ store.issued < MaxRecords
             /\ LET proofId == store.issued + 1
                    fromKey == normalizeHandle(from)
                    toKey == normalizeHandle(to)
                    tx == IF Truthy(txSignature) THEN txSignature ELSE null
                IN  /\ store' = [store EXCEPT
                                   !.proofs = Append(@, [id |-> proofId, from |-> fromKey,
                                                         to |-> toKey, txSignature |-> tx]),
                                   !.issued = proofId]
                    /\ edges' = Append(edges,
                                       LedgerEdge(fromKey, toKey, "proof", proofId, undefined))
                    /\ out' = [op |-> "recordInteractionProof", error |-> FALSE]
             /\ UNCHANGED <<nodes, now>>

\* recordRewardPayment with verifyTx = false; a call without toWallet, a
\* positive amount or txSignature throws before anything is written
RecordRewardPayment ==
    \E toHandle \in {undefined, <<"b">>}, toWallet \in {wallet_1},
       amount \in {0, 1}, txSignature \in {undefined, tx_1} :
        IF ~Truthy(toWallet) \/ amount <= 0 \/ ~Truthy(txSignature)
        THEN /\ out' = [op |-> "recordRewardPayment", error |-> TRUE]
             /\ UNCHANGED <<nodes, edges, store, now>>
        ELSE /\ store.issued < MaxRecords
             /\ LET paymentId == store.issued + 1
                    toKey == IF Truthy(toHandle) THEN normalizeHandle(toHandle)
                             ELSE toWallet
                IN  /\ store' = [store EXCEPT
                                   !.payments = Append(@, [id |-> paymentId,
                                                           toWallet |-> toWallet,
                                                           amount |-> amount,
                                                           txSignature |-> txSignature]),
                                   !.issued = paymentId]
                    /\ edges' = Append(edges,
                                       LedgerEdge(<<"u", "n", "k", "n", "o", "w", "n">>, toKey,
                                                  "payment", 0, txSignature))
                    /\ out' = [op |-> "recordRewardPayment", error |-> FALSE]
             /\ UNCHANGED <<nodes, now>>

\* saveGraphData(posts, nodes, edges, socialPath): the three files are
\* written anew with what the collector gathered
SaveGraphData ==
    \E data \in GraphDataPool :
        /\ nodes' = data.nodes
        /\ edges' = data.edges
        /\ store' = [store EXCEPT !.posts = data.posts]
        /\ out' = [op |-> "saveGraphData"]
        /\ UNCHANGED now

\* graph import: the three files are written anew with the file's content
ImportGraph ==
    \E data \in GraphDataPool :
        /\ nodes' = data.nodes
        /\ edges' = data.edges
        /\ store' = [store EXCEPT !.posts = data.posts]
        /\ out' = [op |-> "import"]
        /\ UNCHANGED now

LedgerNext ==
    RecordInteractionProof \/ RecordRewardPayment \/ SaveGraphData \/ ImportGraph

SpecLedger == LedgerInit /\ [][LedgerNext]_vars

(* C20 *)

\* C20: after any sequence of recordInteractionProof, recordRewardPayment,
\* graph collection and graph import calls, every record of proofs.json has
\* a proof edge in edges.json with its proofId and every record of
\* payments.json has a payment edge in edges.json with its txSignature.
C20_RecordsHaveEdges ==
    /\ \A p \in Range(store.proofs) :
          \E e \in Range(edges) : e.type = "proof" /\ e.proofId = p.id
    /\ \A p \in Range(store.payments) :
          \E e \in Range(edges) :
              e.type = "payment" /\ e.txSignature = p.txSignature

-----------------------------------------------------------------------------
(* Wallet binding with calls in flight.  An async call runs from one await *)
(* of a file read or write to the next without interruption; between two   *)
(* awaits any other call may run.  out.calls holds the calls started, each *)
(* with the copy of solana-challenges.json it read; out.succeeded counts   *)
(* the successful verifications of each challenge and out.marked holds the *)
(* challenges that a write has stored as used.                             *)

MaxCalls == 3

\* One open challenge is on file when the calls begin
RaceInit ==
    /\ nodes = <<>>
    /\ edges = <<>>
    /\ store = [challenges |-> <<[challengeId |-> 1, handle |-> key_a,
                                  walletAddress |-> wallet_1,
                                  expiresAt |-> 1, usedAt |-> NoTime]>>,
                issued |-> 1]
    /\ now = 0
    /\ out = [op |-> "none", calls |-> <<>>, succeeded |-> [id \in {} |-> 0],
              marked |-> {}]

\* The challenges of file that carry a usedAt
UsedIn(file) == {file[i].challengeId : i \in {j \in 1..Len(file) : file[j].usedAt # NoTime}}

\* verifyWalletBinding up to `await writeJson(challengesPath, challenges)`:
\* the file is read, the checks run on the copy and usedAt is set on it
VerifyRead ==
    \E challengeId \in 1..MaxCalls, signatureValid \in BOOLEAN :
        LET error == VerifyError(store.challenges, challengeId, signatureValid,
                                 undefined, undefined)
            i == FindChallenge(store.challenges, 1, challengeId)
        IN  /\ Len(out.calls) < MaxCalls
            /\ out' = [out EXCEPT
                  !.op = "verifyWalletBinding",
                  !.calls = Append(@,
                      IF error # ""
                      THEN [op |-> "verifyWalletBinding", pc |-> "done",
                            challengeId |-> challengeId, error |-> error,
                            challenges |-> store.challenges]
                      ELSE [op |-> "verifyWalletBinding", pc |-> "write",
                            challengeId |-> challengeId, error |-> "",
                            challenges |->
                                [store.challenges EXCEPT ![i].usedAt = now]])]
            /\ UNCHANGED <<nodes, edges, store, now>>

\* `await writeJson(challengesPath, challenges)` of verifyWalletBinding
VerifyWrite ==
    \E c \in 1..Len(out.calls) :
        /\ out.calls[c].op = "verifyWalletBinding"
        /\ out.calls[c].pc = "write"
        /\ store' = [store EXCEPT !.challenges = out.calls[c].challenges]
        /\ out' = [out EXCEPT !.calls[c].pc = "bind",
                              !.marked = @ \cup UsedIn(out.calls[c].challenges)]
        /\ UNCHANGED <<nodes, edges, now>>

\* upsertWalletOnNode and `return { verified: true, ... }`
VerifyBind ==
    \E c \in 1..Len(out.calls) :
        /\ out.calls[c].op = "verifyWalletBinding"
        /\ out.calls[c].pc = "bind"
        /\ LET id == out.calls[c].challengeId
               i == FindChallenge(out.calls[c].challenges, 1, id)
           IN  /\ nodes' = upsertWalletOnNode(nodes,
                                              out.calls[c].challenges[i].handle,
                                              out.calls[c].challenges[i].walletAddress,
                                              id)
               /\ out' = [out EXCEPT
                     !.calls[c].pc = "done",
                     !.succeeded = [x \in (DOMAIN @) \cup {id} |->
                                      IF x = id
                                      THEN (IF id \in DOMAIN @ THEN @[id] ELSE 0) + 1
                                      ELSE @[x]]]
        /\ UNCHANGED <<edges, store, now>>

\* createWalletBindingChallenge up to `await writeJson(challengesPath, active)`
CreateRead ==
    /\ Len(out.calls) < MaxCalls
    /\ LET challengeId == store.issued + 1
           challenge == [challengeId |-> challengeId, handle |-> key_b,
                         walletAddress |-> wallet_2, expiresAt |-> now + 1,
                         usedAt |-> NoTime]
       IN  /\ out' = [out EXCEPT
                 !.op = "createWalletBindingChallenge",
                 !.calls = Append(@,
                     [op |-> "createWalletBindingChallenge", pc |-> "write",
                      challengeId |-> challengeId, error |-> "",
                      challenges |->
                          Append(ActiveChallenges(store.challenges), challenge)])]
           /\ store' = [store EXCEPT !.issued = challengeId]
    /\ UNCHANGED <<nodes, edges, now>>

\* `await writeJson(challengesPath, active)` of createWalletBindingChallenge
CreateWrite ==
    \E c \in 1..Len(out.calls) :
        /\ out.calls[c].op = "createWalletBindingChallenge"
        /\ out.calls[c].pc = "write"
        /\ store' = [store EXCEPT !.challenges = out.calls[c].challenges]
        /\ out' = [out EXCEPT !.calls[c].pc = "done"]
        /\ UNCHANGED <<nodes, edges, now>>

RaceNext == VerifyRead \/ VerifyWrite \/ VerifyBind \/ CreateRead \/ CreateWrite

SpecWalletRace == RaceInit /\ [][RaceNext]_vars

(* C21 *)

\* C21: when verifyWalletBinding and createWalletBindingChallenge calls
\* interleave at their reads and writes of solana-challenges.json, no
\* challenge is verified successfully more than once, and a challenge that
\* a write has stored as used is never on file as unused.
C21_SingleUseInterleaved ==
    /\ \A id \in DOMAIN out.succeeded : out.succeeded[id] <= 1
    /\ \A i \in 1..Len(store.challenges) :
          store.challenges[i].challengeId \in out.marked =>
              store.challenges[i].usedAt # NoTime

-----------------------------------------------------------------------------
(* C22 *)

\* v lies strictly between the endpoints of the path
StrictlyInside(path, v) == \E i \in 2..(Len(path) - 1) : path[i] = v

\* C22: for declared nodes s, t and v named by their keys, when
\* shortestPath(s, t) returns a path that has v strictly between its
\* endpoints, betweennessCentrality gives v a score above 0, whether or not
\* the path passes through a key that is no declared node.
C22_PathImpliesBetweenness ==
    out.op = "betweennessCentrality" =>
        \A s, t, v \in Range(nodeKeys(nodes)) :
            StrictlyInside(shortestPath(nodes, edges, s, t).path, v) =>
                out.result[v][1] > 0


(* C23 *)

\* The keys in the adjacency sets of both x and y, on the index the graph
\* queries build from edges.json
CommonKeys(x, y) ==
    LET adjacency == buildAdjacency(edges)
    IN  {k \in Range(AdjGet(adjacency, x)) : Contains(AdjGet(adjacency, y), k)}

\* C23: the mutual-friend count generateFeed gives a post is the number of
\* keys in the adjacency sets of both the agent and the post's author, the
\* size of commonNeighbors(agent, author), whatever the direction of the
\* edges.
C23_MutualCountIsCommonNeighbours ==
    FeedReturned => FeedItem.mutual_count = Cardinality(CommonKeys(key_a, key_b))


(* C24 *)

\* The size of the author's adjacency set, the value degreeCentrality
\* reports for a node with that key
AuthorDegree == Len(AdjGet(centralityAdjacency(edges), key_b))

\* C24: the activity signal of the post is 0.1 when its author's adjacency
\* set is empty, 0.3 when it has fewer than 5 keys, 0.6 when it has fewer
\* than 15 and 1.0 otherwise, also when several edges join the same pair
\* of keys.
C24_ActivityOfDegree ==
    FeedReturned =>
        calculateActivity(store.posts[1].author_handle, edges) =
            IF AuthorDegree = 0 THEN Rat(1, 10)
            ELSE IF AuthorDegree < 5 THEN Rat(3, 10)
            ELSE IF AuthorDegree < 15 THEN Rat(3, 5)
            ELSE One

-----------------------------------------------------------------------------
(* C25 *)

\* Every value an edge of the list has as from or to, present or not
Endpoints(es) == UNION {{es[i].from, es[i].to} : i \in 1..Len(es)}

\* The edge list with every edge turned round
Reversed(es) == [i \in 1..Len(es) |-> Edge(es[i].to, es[i].from)]

\* b is in the adjacency set of a exactly when an edge with from and to
\* present joins them; only present keys have a set
IndexesEdges(adjacency, es) ==
    /\ \A a, b \in Endpoints(es) \cup {undefined} :
          Contains(AdjGet(adjacency, a), b) <=> Adjacent(es, a, b)
    /\ DOMAIN adjacency = EdgeKeys(es)

\* The two indexes hold the same set for every key
SameIndex(x, y) ==
    /\ DOMAIN x = DOMAIN y
    /\ \A k \in DOMAIN x : Range(x[k]) = Range(y[k])

\* C25: for every edge list, in the index of the graph queries and in the
\* index of the centrality metrics, b is in the adjacency set of a if and
\* only if some edge with from and to present joins a and b in either
\* direction; the index is symmetric, it is the same when every edge is
\* turned round, an edge missing from or to adds no entry, and a query on
\* such a list returns its result.
C25_AdjacencyIndex ==
    /\ IndexesEdges(buildAdjacency(edges), edges)
    /\ IndexesEdges(centralityAdjacency(edges), edges)
    /\ IndexesEdges(buildAdjacency(Reversed(edges)), Reversed(edges))
    /\ IndexesEdges(centralityAdjacency(Reversed(edges)), Reversed(edges))
    /\ \A a, b \in EdgeKeys(edges) :
          Contains(AdjGet(buildAdjacency(edges), a), b) <=>
              Contains(AdjGet(buildAdjacency(edges), b), a)
    /\ SameIndex(buildAdjacency(edges), buildAdjacency(Reversed(edges)))
    /\ SameIndex(centralityAdjacency(edges), centralityAdjacency(Reversed(edges)))
    /\ (out.op = "getNeighbors" /\ ~IsError(out.result)) =>
          \A i \in 1..Len(out.result.edges) : WellFormed(out.result.edges[i])

\* A 1-hop query answered on a list that holds an edge without from next
\* to an edge of the node asked for.
C25_Witness ==
    /\ out.op = "getNeighbors"
    /\ ~IsError(out.result)
    /\ \E i \in 1..Len(edges) : ~WellFormed(edges[i])
    /\ Len(out.result.edges) > 0
    /\ \E a, b \in EdgeKeys(edges) :
          a # b /\ Contains(AdjGet(buildAdjacency(edges), a), b)

-----------------------------------------------------------------------------
(* The loops of the traversals, one iteration per step *)

\* What the loops are started with: three node keys and a mention that
\* resolves to no node
LoopInputPool == {key_a, key_b, key_c, key_g}

\* The body of `while (queue.length > 0)` in shortestPath that pushes a
\* neighbour whether or not it was visited
SearchBodyRevisit(adjacency, toKey, st) ==
    LET current == Head(st.queue)
        neighbors == AdjGet(adjacency, current)
    IN  IF current = toKey THEN [st EXCEPT !.queue = Tail(st.queue)]
        ELSE [queue |-> Tail(st.queue) \o neighbors,
              visited |-> st.visited \cup Range(neighbors),
              prev |-> [k \in (DOMAIN st.prev) \cup Range(neighbors) |-> current]]

\* The body of `while (queue.length > 0)` in shortestPath
SearchBody(adjacency, toKey, st) ==
    LET current == Head(st.queue)
        shifted == [st EXCEPT !.queue = Tail(st.queue)]
    IN  IF current = toKey THEN shifted
        ELSE EnqueueNeighbors(AdjGet(adjacency, current), 1, current, shifted)

\* The body of `while (queue.length)` in betweennessCentrality
BcSearchBody(adj, b) ==
    LET v == Head(b.queue)
        b1 == [b EXCEPT !.queue = Tail(@), !.stack = Append(@, v)]
    IN  BcNeighborLoop(AdjGet(adj, v), 1, v, b1)

\* const queue = [s] and the tables of one source
BcSourceState(keys, s) ==
    [queue |-> <<s>>, stack |-> <<>>,
     preds |-> Fill(keys, <<>>),
     sigma |-> [Fill(keys, 0) EXCEPT ![s] = 1],
     dist |-> [Fill(keys, -1) EXCEPT ![s] = 0]]

LoopInit ==
    /\ nodes \in NodeLists(NodeList, MaxNodes)
    /\ edges \in EdgeLists(EdgeList, MaxEdges)
    /\ out = [op |-> "none"]
    /\ store = NoStore
    /\ now = 0

Running(op, pc) == out.op = op /\ out.pc = pc

(* getNeighbors *)

GnStart ==
    \E node \in LoopInputPool, hops \in 0..MaxHops :
        LET startKey == resolveNodeKey(node, buildNodeIndex(nodes))
        IN  /\ Idle
            /\ out' = IF ~Truthy(startKey)
                      THEN [op |-> "getNeighbors", pc |-> "done",
                            result |-> NodeNotFound(node)]
                      ELSE [op |-> "getNeighbors", pc |-> "hops",
                            hops |-> hops, i |-> 0,
                            visited |-> {startKey}, frontier |-> <<startKey>>]
            /\ UNCHANGED <<nodes, edges, store, now>>

\* One round of `for (let i = 0; i < hops; i++)`
GnHop ==
    /\ Running("getNeighbors", "hops")
    /\ out.i < out.hops
    /\ LET st == ExpandFrontier(buildAdjacency(edges), out.frontier, 1,
                                <<out.visited, <<>>>>)
       IN  out' = [out EXCEPT !.i = @ + 1, !.visited = st[1], !.frontier = st[2]]
    /\ UNCHANGED <<nodes, edges, store, now>>

GnReturn ==
    /\ Running("getNeighbors", "hops")
    /\ out.i >= out.hops
    /\ out' = [out EXCEPT !.pc = "done"]
    /\ UNCHANGED <<nodes, edges, store, now>>

(* shortestPath *)

SpStart ==
    \E from \in LoopInputPool, to \in LoopInputPool :
        LET nodeByKey == buildNodeIndex(nodes)
            fromKey == resolveNodeKey(from, nodeByKey)
            toKey == resolveNodeKey(to, nodeByKey)
        IN  /\ Idle
            /\ out' = IF ~Truthy(fromKey) \/ ~Truthy(toKey)
                      THEN [op |-> "shortestPath", pc |-> "done",
                            result |-> NodeNotFound(IF ~Truthy(fromKey)
                                                    THEN from ELSE to)]
                      ELSE [op |-> "shortestPath", pc |-> "search",
                            from |-> from, to |-> to, toKey |-> toKey,
                            st |-> [queue |-> <<fromKey>>,
                                    visited |-> {fromKey},
                                    prev |-> EmptyMap],
                            cursor |-> undefined, path |-> <<>>]
            /\ UNCHANGED <<nodes, edges, store, now>>

\* One round of `while (queue.length > 0)`; `break` leaves the loop
SpSearch ==
    /\ Running("shortestPath", "search")
    /\ Len(out.st.queue) > 0
    /\ out' = [out EXCEPT !.st = SearchBody(buildAdjacency(edges), out.toKey, out.st),
                          !.pc = IF Head(out.st.queue) = out.toKey
                                 THEN "searched" ELSE "search"]
    /\ UNCHANGED <<nodes, edges, store, now>>

\* After the loop: `if (!visited.has(toKey)) return`, `let cursor = toKey`
SpSearched ==
    /\ \/ Running("shortestPath", "searched")
       \/ Running("shortestPath", "search") /\ Len(out.st.queue) = 0
    /\ out' = IF out.toKey \notin out.st.visited
              THEN [out EXCEPT !.pc = "done"]
              ELSE [out EXCEPT !.pc = "path", !.cursor = out.toKey]
    /\ UNCHANGED <<nodes, edges, store, now>>

\* One round of `while (cursor)`
SpPath ==
    /\ Running("shortestPath", "path")
    /\ Truthy(out.cursor)
    /\ out' = [out EXCEPT !.path = <<out.cursor>> \o @,
                          !.cursor = PrevGet(out.st.prev, out.cursor)]
    /\ UNCHANGED <<nodes, edges, store, now>>

SpReturn ==
    /\ Running("shortestPath", "path")
    /\ ~Truthy(out.cursor)
    /\ out' = [out EXCEPT !.pc = "done"]
    /\ UNCHANGED <<nodes, edges, store, now>>

(* betweennessCentrality *)

BcStart ==
    /\ Idle
    /\ out' = [op |-> "betweennessCentrality", pc |-> "source", c |-> 1,
               scores |-> Fill(nodeKeys(nodes), Zero),
               b |-> <<>>, stack |-> <<>>, delta |-> <<>>]
    /\ UNCHANGED <<nodes, edges, store, now>>

\* One round of `for (const s of keys)` begins
BcSource ==
    /\ Running("betweennessCentrality", "source")
    /\ out.c <= Len(nodeKeys(nodes))
    /\ out' = [out EXCEPT !.pc = "search",
                          !.b = BcSourceState(nodeKeys(nodes),
                                              nodeKeys(nodes)[out.c])]
    /\ UNCHANGED <<nodes, edges, store, now>>

\* One round of `while (queue.length)`
BcSearchStep ==
    /\ Running("betweennessCentrality", "search")
    /\ Len(out.b.queue) > 0
    /\ out' = [out EXCEPT !.b = BcSearchBody(centralityAdjacency(edges), out.b)]
    /\ UNCHANGED <<nodes, edges, store, now>>

\* const delta = {}; keys.forEach(v => (delta[v] = 0))
BcSearched ==
    /\ Running("betweennessCentrality", "search")
    /\ Len(out.b.queue) = 0
    /\ out' = [out EXCEPT !.pc = "accumulate", !.stack = out.b.stack,
                          !.delta = Fill(nodeKeys(nodes), Zero)]
    /\ UNCHANGED <<nodes, edges, store, now>>

\* One round of `while (stack.length)`
BcPop ==
    /\ Running("betweennessCentrality", "accumulate")
    /\ Len(out.stack) > 0
    /\ LET w == out.stack[Len(out.stack)]
           s == nodeKeys(nodes)[out.c]
           d1 == BcPredLoop(out.b.preds[w], 1, w, out.b.sigma, out.delta)
       IN  out' = [out EXCEPT !.stack = SubSeq(@, 1, Len(@) - 1),
                              !.delta = d1,
                              !.scores = IF w # s
                                         THEN [@ EXCEPT ![w] = RAdd(@, d1[w])]
                                         ELSE @]
    /\ UNCHANGED <<nodes, edges, store, now>>

\* The round of `for (const s of keys)` ends
BcAccumulated ==
    /\ Running("betweennessCentrality", "accumulate")
    /\ Len(out.stack) = 0
    /\ out' = [out EXCEPT !.pc = "source", !.c = @ + 1]
    /\ UNCHANGED <<nodes, edges, store, now>>

BcReturn ==
    /\ Running("betweennessCentrality", "source")
    /\ out.c > Len(nodeKeys(nodes))
    /\ out' = [out EXCEPT !.pc = "done"]
    /\ UNCHANGED <<nodes, edges, store, now>>

(* pageRank and labelPropagation *)

PrStart ==
    \E iterations \in 0..MaxIterations :
        LET keys == nodeKeys(nodes)
            N == IF Len(keys) = 0 THEN 1 ELSE Len(keys)
        IN  /\ Idle
            /\ out' = [op |-> "pageRank", pc |-> "iterate",
                       iterations |-> iterations, i |-> 0,
                       rank |-> Fill(keys, Rat(1, N))]
            /\ UNCHANGED <<nodes, edges, store, now>>

\* One round of `for (let i = 0; i < iterations; i++)` in pageRank
PrIteration ==
    /\ Running("pageRank", "iterate")
    /\ out.i < out.iterations
    /\ LET keys == nodeKeys(nodes)
           N == IF Len(keys) = 0 THEN 1 ELSE Len(keys)
       IN  out' = [out EXCEPT !.i = @ + 1,
                              !.rank = PrSweep(centralityAdjacency(edges), keys,
                                               DefaultDamping, N, out.rank)]
    /\ UNCHANGED <<nodes, edges, store, now>>

LpStart ==
    \E iterations \in 0..MaxIterations :
        /\ Idle
        /\ out' = [op |-> "labelPropagation", pc |-> "iterate",
                   iterations |-> iterations, i |-> 0,
                   labels |-> InitialLabels(nodes)]
        /\ UNCHANGED <<nodes, edges, store, now>>

\* One round of `for (let i = 0; i < iterations; i++)` in labelPropagation
LpIteration ==
    /\ Running("labelPropagation", "iterate")
    /\ out.i < out.iterations
    /\ out' = [out EXCEPT !.i = @ + 1,
                          !.labels = LabelSweep(nodes, edges, out.labels)]
    /\ UNCHANGED <<nodes, edges, store, now>>

IterationsReturn ==
    /\ Running("pageRank", "iterate") \/ Running("labelPropagation", "iterate")
    /\ out.i >= out.iterations
    /\ out' = [out EXCEPT !.pc = "done"]
    /\ UNCHANGED <<nodes, edges, store, now>>

LoopNext ==
    \/ GnStart \/ GnHop \/ GnReturn
    \/ SpStart \/ SpSearch \/ SpSearched \/ SpPath \/ SpReturn
    \/ BcStart \/ BcSource \/ BcSearchStep \/ BcSearched \/ BcPop
    \/ BcAccumulated \/ BcReturn
    \/ PrStart \/ PrIteration \/ LpStart \/ LpIteration \/ IterationsReturn

Returned == out.op # "none" /\ out.pc = "done"

\* A call runs to completion: until it has returned, steps keep being
\* taken. This is weak fairness of LoopNext with its enabling condition
\* written out: every step changes out, and a step can be taken exactly
\* until the call has returned (CanStep below), so
\* WF_vars(LoopNext) = []<>~ENABLED <<LoopNext>>_vars \/ []<><<LoopNext>>_vars
\* is the formula used here.
SpecLoops ==
    LoopInit /\ [][LoopNext]_vars /\ ([]<>Returned \/ []<><<LoopNext>>_vars)

(* C26 *)

\* The keys a traversal can hold: the keys of the index and its start
KeyBound == Cardinality(EdgeKeys(edges) \cup DeclaredKeys(nodes))

\* No queue, stack, frontier or path holds more keys than the graph has,
\* and no counter passes its limit
LoopBounded ==
    /\ Running("getNeighbors", "hops") =>
          out.i <= out.hops /\ Len(out.frontier) <= KeyBound
    /\ (out.op = "shortestPath" /\ out.pc # "done") =>
          /\ Len(out.st.queue) <= KeyBound
          /\ Len(out.path) <= KeyBound
    /\ (out.op = "betweennessCentrality" /\ out.pc \in {"search", "accumulate"}) =>
          /\ Len(out.b.queue) + Len(out.b.stack) <= Len(nodeKeys(nodes))
          /\ out.c <= Len(nodeKeys(nodes))
    /\ (out.op \in {"pageRank", "labelPropagation"} /\ out.pc = "iterate") =>
          out.i <= out.iterations

\* Every position a call can be at before its return has a step to take
CanStep ==
    \/ Idle
    \/ Returned
    \/ Running("getNeighbors", "hops")
    \/ out.op = "shortestPath" /\ out.pc \in {"search", "searched", "path"}
    \/ out.op = "betweennessCentrality"
          /\ out.pc \in {"source", "search", "accumulate"}
    \/ out.op \in {"pageRank", "labelPropagation"} /\ out.pc = "iterate"

\* C26: on every finite graph (cycles, self-loops, repeated edges and keys
\* that are no declared node included) and for every hop and iteration
\* count, getNeighbors, the search loop and the path reconstruction loop
\* of shortestPath, betweennessCentrality, pageRank and labelPropagation
\* return: every call started reaches its return, and on the way no queue,
\* stack, frontier or path outgrows the graph's keys.
C26_Termination ==
    /\ [](LoopBounded /\ CanStep)
    /\ (out.op # "none") ~> Returned

\* A shortest path of three keys was rebuilt, and returned, on a graph
\* that holds a self-loop, and the loops gave what the function gives.
C26_Witness ==
    /\ Returned
    /\ out.op = "shortestPath"
    /\ "path" \in DOMAIN out
    /\ Len(out.path) = 3
    /\ \E i \in 1..Len(edges) : edges[i] = Edge(key_a, key_a)
    /\ out.path = shortestPath(nodes, edges, out.from, out.to).path

-----------------------------------------------------------------------------
(* C27 *)

\* The keys that occur in the graph: declared node keys and edge endpoints
GraphKeys == Range(nodeKeys(nodes)) \cup EdgeKeys(edges)

\* C27: after every number of iterations of labelPropagation, the label
\* of each declared node is a key that occurs in the graph (a declared
\* node key or an edge endpoint), also when its neighbours include keys
\* that are no declared node, and a node with no neighbours keeps its own
\* key.
C27_LabelsAreGraphKeys ==
    out.op = "labelPropagation" =>
        \A k \in DOMAIN out.result :
            /\ out.result[k] \in GraphKeys
            /\ Len(AdjGet(centralityAdjacency(edges), k)) = 0 => out.result[k] = k

\* The same, on graphs whose every edge endpoint is a declared node
C27_DeclaredEndpointsOnly ==
    (out.op = "labelPropagation" /\ EdgeKeys(edges) \subseteq Range(nodeKeys(nodes))) =>
        \A k \in DOMAIN out.result :
            /\ out.result[k] \in GraphKeys
            /\ Len(AdjGet(centralityAdjacency(edges), k)) = 0 => out.result[k] = k

-----------------------------------------------------------------------------
(* C28 *)

-----------------------------------------------------------------------------
(* Metadata storage *)

MaxUpdates == 3

\* source: null
NoSource == "null"

\* The nested objects of DEFAULT_METADATA as the module creates them
DefaultSections ==
    [baseline |-> [last_updated |-> NoTime, profile_generated_at |-> NoTime],
     collection |-> [last_run |-> NoTime, source |-> NoSource],
     graph |-> [nodes_count |-> 0, edges_count |-> 0, last_updated |-> NoTime],
     feed |-> [last_generated |-> NoTime, items_count |-> 0]]

SocialPaths == {"social_1", "social_2"}
SourcePool == {"amikonet", "import"}
CountPool == {0, 2}

\* store.defaults holds the four nested objects DEFAULT_METADATA points
\* to, store.files the metadata.json of each directory that has one
MetadataInit ==
    /\ nodes = <<>>
    /\ edges = <<>>
    /\ out = [op |-> "none"]
    /\ store = [defaults |-> DefaultSections,
                files |-> [d \in {} |-> <<>>],
                updates |-> 0]
    /\ now = 0

HasMetadata(socialPath) == socialPath \in DOMAIN store.files

\* loadMetadata: the parsed file, or `{ ...DEFAULT_METADATA }`, a new
\* object whose version and dates are copies and whose baseline,
\* collection, graph and feed are the objects of DEFAULT_METADATA
loadMetadata(socialPath) ==
    IF HasMetadata(socialPath) THEN store.files[socialPath]
    ELSE [version |-> "1.0.0", created_at |-> 0, last_updated |-> 0,
          baseline |-> store.defaults.baseline,
          collection |-> store.defaults.collection,
          graph |-> store.defaults.graph,
          feed |-> store.defaults.feed]

\* An update: loadMetadata, an assignment to the fields of one nested
\* object, saveMetadata. Without a file the nested object assigned to is
\* the one DEFAULT_METADATA points to.
Update(socialPath, section, value) ==
    LET metadata == loadMetadata(socialPath)
        updated == [metadata EXCEPT ![section] = value, !.last_updated = now]
    IN  /\ store.updates < MaxUpdates
        /\ store' = [defaults |-> IF HasMetadata(socialPath) THEN store.defaults
                                  ELSE [store.defaults EXCEPT ![section] = value],
                     files |-> Put(store.files, socialPath, updated),
                     updates |-> store.updates + 1]
        /\ out' = [op |-> section, socialPath |-> socialPath]
        /\ UNCHANGED <<nodes, edges, now>>

UpdateBaseline ==
    \E socialPath \in SocialPaths :
        Update(socialPath, "baseline",
               [last_updated |-> now, profile_generated_at |-> now])

UpdateCollection ==
    \E socialPath \in SocialPaths, source \in SourcePool :
        Update(socialPath, "collection", [last_run |-> now, source |-> source])

UpdateGraphStats ==
    \E socialPath \in SocialPaths, nodesCount \in CountPool, edgesCount \in CountPool :
        Update(socialPath, "graph",
               [nodes_count |-> nodesCount, edges_count |-> edgesCount,
                last_updated |-> now])

UpdateFeed ==
    \E socialPath \in SocialPaths, itemsCount \in CountPool :
        Update(socialPath, "feed",
               [last_generated |-> now, items_count |-> itemsCount])

LoadMetadata ==
    \E socialPath \in SocialPaths :
        /\ out' = [op |-> "loadMetadata", socialPath |-> socialPath,
                   found |-> HasMetadata(socialPath),
                   result |-> loadMetadata(socialPath)]
        /\ UNCHANGED <<nodes, edges, store, now>>

MetadataNext ==
    \/ UpdateBaseline \/ UpdateCollection \/ UpdateGraphStats \/ UpdateFeed
    \/ LoadMetadata \/ Tick

SpecMetadata == MetadataInit /\ [][MetadataNext]_vars

(* C29 *)

\* The four nested records of a metadata record
Sections(metadata) ==
    [baseline |-> metadata.baseline, collection |-> metadata.collection,
     graph |-> metadata.graph, feed |-> metadata.feed]

\* C29: loadMetadata on a directory that has no metadata.json returns the
\* default record, every timestamp of baseline, collection, graph and
\* feed null and every count 0, whichever updates were made before on any
\* directory.
C29_DefaultWithoutFile ==
    (out.op = "loadMetadata" /\ ~out.found) =>
        /\ Sections(out.result) = DefaultSections
        /\ out.result.baseline.last_updated = NoTime
        /\ out.result.graph.nodes_count = 0

\* An update leaves the metadata.json of every other directory as it was
C29_OtherFilesUnchanged ==
    [][\A d \in DOMAIN store.files :
          (out'.op \notin {"none", "loadMetadata"} /\ out'.socialPath # d
             /\ store' # store)
          => (d \in DOMAIN store'.files /\ store'.files[d] = store.files[d])]_vars

-----------------------------------------------------------------------------
(* The social_find_connections tool *)

\* The arguments a caller passes: node with or without hops, a and b, or
\* nothing
ToolArgs ==
    {[node |-> n] : n \in InputPool}
    \cup {[node |-> n, hops |-> h] : n \in InputPool, h \in 0..MaxHops}
    \cup {[a |-> x, b |-> y] : x, y \in {key_a, key_b, key_c}}
    \cup {[social_path |-> <<"s">>]}

\* args.x, undefined when the caller did not pass it
Arg(args, x) == IF x \in DOMAIN args THEN args[x] ELSE undefined

\* args.hops || 1: a missing hops and hops = 0 are both falsy
HopsOrOne(args) ==
    IF "hops" \in DOMAIN args /\ args.hops # 0 THEN args.hops ELSE 1

\* execute(args); an error thrown by the library call is the outcome
social_find_connections(ns, es, args) ==
    IF Truthy(Arg(args, "node"))
    THEN LET data == getNeighbors(ns, es, args.node, HopsOrOne(args))
         IN  IF IsError(data) THEN data ELSE [success |-> TRUE, data |-> data]
    ELSE IF Truthy(Arg(args, "a")) /\ Truthy(Arg(args, "b"))
    THEN LET data == commonNeighbors(ns, es, args.a, args.b)
         IN  IF IsError(data) THEN data ELSE [success |-> TRUE, data |-> data]
    ELSE [success |-> FALSE, error |-> "Provide either node+hops or a+b."]

SocialFindConnections ==
    \E args \in ToolArgs :
        /\ Idle
        /\ out' = [op |-> "social_find_connections", args |-> args,
                   result |-> social_find_connections(nodes, edges, args)]
        /\ UNCHANGED <<nodes, edges, store, now>>

ToolNext == SocialFindConnections

SpecTools == Init /\ [][ToolNext]_vars

(* C30 *)

\* C30: for every node and every hops value the tool is given, 0
\* included, it returns what getNeighbors returns for that node and that
\* hops value, and what getNeighbors returns for 1 hop when hops is not
\* given.
C30_ToolIsGetNeighbors ==
    (out.op = "social_find_connections" /\ "node" \in DOMAIN out.args) =>
        LET hops == IF "hops" \in DOMAIN out.args THEN out.args.hops ELSE 1
            data == getNeighbors(nodes, edges, out.args.node, hops)
        IN  out.result = IF IsError(data) THEN data
                         ELSE [success |-> TRUE, data |-> data]

\* The same for every hops value given other than 0
C30_NonZeroHops ==
    (/\ out.op = "social_find_connections"
     /\ "node" \in DOMAIN out.args
     /\ ("hops" \in DOMAIN out.args => out.args.hops # 0)) =>
        LET hops == IF "hops" \in DOMAIN out.args THEN out.args.hops ELSE 1
            data == getNeighbors(nodes, edges, out.args.node, hops)
        IN  out.result = IF IsError(data) THEN data
                         ELSE [success |-> TRUE, data |-> data]

=============================================================================
